---- MODULE Spec2Model ----
(***************************************************************************)
(* Model of the exam-grader backend (backend/src/server.ts, the second,    *)
(* asynchronous version of the server in that file) and of the part of the *)
(* React client that drives it (frontend/src/App.tsx, SortingPage).        *)
(*                                                                         *)
(* The server is one Node.js process: every handler runs uninterrupted     *)
(* from one `await` to the next.  An action of this module is one such     *)
(* run-to-completion segment.  Awaits that touch no shared state (creating *)
(* a PDF, embedding a font, copying a page, saving) are merged with the    *)
(* segment that follows them.                                              *)
(***************************************************************************)
EXTENDS Integers, Sequences, FiniteSets, TLC

(***************************************************************************)
(* Bounds of the model.                                                    *)
(***************************************************************************)
\* Calls of processStudentInBackground a session running only submits holds.
MaxSubmits == 2
\* The same, where finalize or reset requests run beside them.
MaxSubmitsBeside == 1
\* /api/finalize requests in flight at a time.
MaxFinalizers == 1

(***************************************************************************)
(* Inputs.                                                                 *)
(***************************************************************************)
\* The value of processingError before any failure (the field is optional).
Undefined == "<undefined>"

\* An uploaded file: its page count, and whether pdf-lib can parse it.
GoodDoc == [pages |-> 2, ok |-> TRUE]
BadDoc == [pages |-> 2, ok |-> FALSE]

\* The batches of files a client may upload.
UploadInputs == { <<>>, <<GoodDoc>>, <<GoodDoc, BadDoc>>, <<GoodDoc, GoodDoc>> }

\* The student ids a client may name: those of the largest roster, and one
\* that is never in the roster.
StudentIds == {1, 2, 3}

\* The bodies a client may send to /api/label.  pageLabels is written as the
\* sequence Object.entries() yields for it: <<page key, list of problem
\* numbers>>, integer keys ascending first, other keys (here "-1") after them.
\*   - two problems on one page, and the sentinel -1
\*   - a non-positive number and the same number twice
\*   - a page key below 1 after a page that can be stamped
\*   - the sentinel, and a page beyond the document
LabelInputs ==
    { [name |-> "ann", labels |-> << <<1, <<1, 2>>>>, <<2, <<-1>>>> >>],
      [name |-> "bob", labels |-> << <<1, <<0, 1, 1>>>> >>],
      [name |-> "ann", labels |-> << <<1, <<1>>>>, <<-1, <<2>>>> >>],
      [name |-> "bob", labels |-> << <<1, <<-1>>>>, <<3, <<1>>>> >>] }

VARIABLES
    students,      \* sessionData.students
    problemPages,  \* sessionData.problemPages
    finalPdfs,     \* sessionData.finalPdfs
    tasks,         \* the calls of processStudentInBackground of this session
    finalizers,    \* the /api/finalize requests in flight
    resetting,     \* the /api/reset request in flight, or NoReset
    response,      \* the HTTP response sent by the last step, if any
    appState,      \* App: phase, totalStudents, currentStudentId
    sorting,       \* SortingPage: isSaving and the handleSubmit call in flight
    chains,        \* App: the finalizeAndShowDownload calls in flight
    finalizeCalls, \* history: POST /api/finalize requests the client has sent
    labeling,      \* SortingPage: pageLabels, currentPage, the digit remembered
    viewer         \* SortingPage: the student loaded, the load and prefetches

client == <<appState, sorting, chains, finalizeCalls, labeling, viewer>>

vars == <<students, problemPages, finalPdfs, tasks, finalizers, resetting,
          response, client>>

(***************************************************************************)
(* Helpers.                                                                *)
(***************************************************************************)
Range(s) == { s[i] : i \in DOMAIN s }

RemoveAt(s, i) == SubSeq(s, 1, i - 1) \o SubSeq(s, i + 1, Len(s))

RECURSIVE SortedSeq(_)
\* Object.keys() of an object with integer keys: ascending numeric order.
SortedSeq(S) ==
    IF S = {} THEN <<>>
    ELSE LET m == CHOOSE x \in S : \A y \in S : x <= y
         IN  <<m>> \o SortedSeq(S \ {m})

ObjectKeys(obj) == SortedSeq(DOMAIN obj)

\* A lookup that falls back on the first student.
FindStudentOrFirst(roster, studentId) ==
    IF \E i \in DOMAIN roster : roster[i].id = studentId
    THEN CHOOSE i \in DOMAIN roster : roster[i].id = studentId
    ELSE IF roster = <<>> THEN 0 ELSE 1

\* sessionData.students.find(s => s.id === studentId): the index, 0 if none.
FindStudent(roster, studentId) ==
    IF \E i \in DOMAIN roster : roster[i].id = studentId
    THEN CHOOSE i \in DOMAIN roster : roster[i].id = studentId
    ELSE 0

\* No response sent by the last step.
NoResponse == [op |-> "none", code |-> 0, body |-> <<>>]

NoReset == [active |-> FALSE, next |-> 0, count |-> 0, live |-> FALSE]

\* SortingPage with no handleSubmit call in flight.
Idle == [isSaving |-> FALSE, pc |-> "idle", studentId |-> 0, body |-> <<>>,
         ok |-> FALSE]

\* StudentData of no student: null (studentId 0).
NoData == [studentId |-> 0, studentName |-> "", pageLabels |-> <<>>,
           pdfData |-> Undefined]

\* SortingPage before it mounts: no student data, no fetch under way.
NoViewer == [studentData |-> NoData, isLoading |-> FALSE, loading |-> 0,
             loaded |-> NoResponse, hasPrefetchedNext |-> FALSE,
             isUserLabeling |-> FALSE, timers |-> <<>>, prefetches |-> <<>>]

\* No label handler called yet.
NoCall == [handler |-> "none", pageNumber |-> 0, problemNumber |-> 0,
           before |-> <<>>]

\* SortingPage as it mounts: no labels, page 1, no digit remembered
\* (lastAddedProblem 0 stands for null).
NoLabels == [pageLabels |-> <<>>, currentPage |-> 1, lastAddedProblem |-> 0,
             lastAddedWasNew |-> FALSE, lastCall |-> NoCall]

Init ==
    /\ students = <<>>
    /\ problemPages = <<>>
    /\ finalPdfs = <<>>
    /\ tasks = <<>>
    /\ finalizers = <<>>
    /\ resetting = NoReset
    /\ response = NoResponse
    /\ appState = [phase |-> "upload", totalStudents |-> 0, currentStudentId |-> 1,
                   problems |-> <<>>, prefetchedStudentData |-> NoData]
    /\ sorting = Idle
    /\ chains = <<>>
    /\ finalizeCalls = 0
    /\ labeling = NoLabels
    /\ viewer = NoViewer

(***************************************************************************)
(* POST /api/upload.  multer has stored the files before the handler runs; *)
(* the handler body has no await.                                          *)
(***************************************************************************)
\* The roster built from the uploaded files: ids 1..N in input order.
\* A roster whose ids start at 0.
NewRosterFromZero(docs) ==
    [ i \in 1..Len(docs) |->
        [ id |-> i - 1,
          name |-> "",
          doc |-> docs[i],
          onDisk |-> TRUE,
          pageLabels |-> <<>>,
          processingStatus |-> "pending",
          processingError |-> Undefined ] ]

NewRoster(docs) ==
    [ i \in 1..Len(docs) |->
        [ id |-> i,
          name |-> "",
          doc |-> docs[i],          \* the file at originalPdfPath
          onDisk |-> TRUE,          \* that file still exists
          pageLabels |-> <<>>,
          processingStatus |-> "pending",
          processingError |-> Undefined ] ]

\* What replacing sessionData (or its fields) does to the work in flight:
\* a running task keeps its old student object, a running finalize keeps
\* the old array it iterates.  Finished tasks of the old session are dropped.
Orphaned(ts) ==
    LET running == SelectSeq(ts, LAMBDA t : t.pc \in {"loading", "stamping"})
    IN  [ i \in 1..Len(running) |->
            [running[i] EXCEPT !.stale = TRUE, !.out = <<>>] ]

Frozen(fs, pp) ==
    [ i \in 1..Len(fs) |->
        IF fs[i].ref = "live"
        THEN [fs[i] EXCEPT !.ref = "old", !.pages = pp[fs[i].keys[fs[i].k]]]
        ELSE fs[i] ]

Upload(docs) ==
    /\ students' = NewRoster(docs)
    /\ problemPages' = <<>>
    /\ finalPdfs' = <<>>
    /\ tasks' = Orphaned(tasks)
    /\ finalizers' = Frozen(finalizers, problemPages)
    /\ resetting' = IF resetting.active THEN [resetting EXCEPT !.live = FALSE]
                    ELSE resetting
    /\ response' = [op |-> "upload", code |-> 200,
                    body |-> [success |-> TRUE, totalStudents |-> Len(docs)]]

\* A request without an array of files: 400, nothing touched.
UploadNoFiles ==
    /\ response' = [op |-> "upload", code |-> 400,
                    body |-> [error |-> "No files uploaded"]]
    /\ UNCHANGED <<students, problemPages, finalPdfs, tasks, finalizers,
                   resetting>>

(***************************************************************************)
(* processStudentInBackground.                                             *)
(***************************************************************************)
\* A guard that does not look at the page count.
PageSelectedAnyPage(pageNum, problemNums, pageCount) == Len(problemNums) > 0

\* The guard of the page loop: pageNum <= originalPages.length and a
\* non-empty list of problem numbers.
PageSelected(pageNum, problemNums, pageCount) ==
    pageNum <= pageCount /\ Len(problemNums) > 0

\* A guard that skips the sentinel only.
ProblemSelectedNotSentinel(problemNumber) == problemNumber # -1

\* The guard of the inner loop: problemNumber > 0.
ProblemSelected(problemNumber) == problemNumber > 0

RECURSIVE NextPair(_, _, _, _)
\* The next (entry, label) position at or after (e, l) the two nested loops
\* stamp, <<0, 0>> when the loops run to their end.
NextPair(pageLabels, pageCount, e, l) ==
    IF e > Len(pageLabels) THEN <<0, 0>>
    ELSE LET pageNum == pageLabels[e][1]
             problemNums == pageLabels[e][2]
         IN  IF ~PageSelected(pageNum, problemNums, pageCount) \/ l > Len(problemNums)
             THEN NextPair(pageLabels, pageCount, e + 1, 1)
             ELSE IF ProblemSelected(problemNums[l])
                  THEN <<e, l>>
                  ELSE NextPair(pageLabels, pageCount, e, l + 1)

\* The watermark text drawn on the copy.
LabelText(problemNumber, studentName, studentId) ==
    <<"Problem", problemNumber, studentName, "Student nr", studentId>>

\* The single-page document the task saves: the source page plus the text.
StampedPdf(studentId, pageNum, problemNumber, studentName) ==
    [ src |-> studentId, page |-> pageNum,
      text |-> LabelText(problemNumber, studentName, studentId) ]

\* The record pushed on sessionData.problemPages[problemNumber].
ProblemPage(studentId, studentName, pageNum, problemNumber) ==
    [ studentId |-> studentId,
      studentName |-> studentName,
      pageNumber |-> pageNum,
      pdfData |-> StampedPdf(studentId, pageNum, problemNumber, studentName) ]

\* A store that keeps one page per student and page number: a page stored
\* again takes the place of the earlier one.
PushPageReplacing(pp, problemNumber, page) ==
    IF problemNumber \in DOMAIN pp
    THEN [pp EXCEPT ![problemNumber] =
            Append(SelectSeq(@, LAMBDA r : r.studentId # page.studentId
                                           \/ r.pageNumber # page.pageNumber),
                   page)]
    ELSE pp @@ (problemNumber :> <<page>>)

\* A store that puts the page at the head of the collection.
PushPageFirst(pp, problemNumber, page) ==
    IF problemNumber \in DOMAIN pp
    THEN [pp EXCEPT ![problemNumber] = <<page>> \o @]
    ELSE pp @@ (problemNumber :> <<page>>)

\* A store that replaces the collection instead of appending to it.
PushPageLost(pp, problemNumber, page) ==
    (problemNumber :> <<page>>) @@ pp

\* if (!problemPages[n]) problemPages[n] = []; problemPages[n].push(page)
PushPage(pp, problemNumber, page) ==
    IF problemNumber \in DOMAIN pp
    THEN [pp EXCEPT ![problemNumber] = Append(@, page)]
    ELSE pp @@ (problemNumber :> <<page>>)

\* A catch block that records no text.
ErrorMessageEmpty(thrown) == ""

\* error instanceof Error ? error.message : 'Unknown processing error'
ErrorMessage(thrown) ==
    IF thrown.isError THEN thrown.message ELSE "Unknown processing error"

ReadError == [isError |-> TRUE, message |-> "ENOENT: no such file or directory"]
ParseError == [isError |-> TRUE, message |-> "Failed to parse PDF document"]
CopyError == [isError |-> TRUE,
              message |-> "Cannot read properties of undefined (reading 'node')"]

\* The first segment of the task, run inside the label handler: the student
\* is looked up, marked processing, and the read of its file is issued.
StartTask(roster, studentId, studentName, pageLabels) ==
    LET i == FindStudent(roster, studentId)
    IN  [ sid |-> studentId,
          name |-> studentName,
          labels |-> pageLabels,
          stale |-> FALSE,        \* its student object left the roster
          pc |-> "loading",
          e |-> 0, l |-> 0,
          doc |-> roster[i].doc,
          onDisk |-> roster[i].onDisk,
          raced |-> FALSE,        \* the file was unlinked during the read
          hung |-> FALSE,         \* the awaited step never settles
          out |-> <<>> ]          \* history: what this task has pushed

\* Assignments to the student object the task holds; an orphaned object is
\* no longer part of the store.
MarkCompleted(roster, t) ==
    IF t.stale THEN roster
    ELSE [roster EXCEPT ![t.sid].processingStatus = "completed"]

MarkError(roster, t, message) ==
    IF t.stale THEN roster
    ELSE [roster EXCEPT ![t.sid].processingStatus = "error",
                        ![t.sid].processingError = message]

\* The list of calls after call i has ended in state pc: a call whose
\* student is in the roster is kept as history, an orphaned one is dropped.
Ended(ts, i, t, pc) ==
    IF t.stale THEN RemoveAt(ts, i)
    ELSE [ts EXCEPT ![i] = [t EXCEPT !.pc = pc]]

\* A failure that is swallowed: the task neither ends nor records anything.
FailSilently(i, thrown) == UNCHANGED <<tasks, students, problemPages>>

\* A catch block that also takes back what the task has pushed.
FailRollback(i, thrown) ==
    /\ tasks' = Ended(tasks, i, tasks[i], "error")
    /\ students' = MarkError(students, tasks[i], ErrorMessage(thrown))
    /\ problemPages' =
          [ P \in DOMAIN problemPages |->
              SelectSeq(problemPages[P],
                        LAMBDA r : \A k \in DOMAIN tasks[i].out :
                                      tasks[i].out[k] # <<P, r>>) ]

\* The catch block.
Fail(i, thrown) ==
    /\ tasks' = Ended(tasks, i, tasks[i], "error")
    /\ students' = MarkError(students, tasks[i], ErrorMessage(thrown))
    /\ UNCHANGED problemPages

\* The loops reached their end, or suspend at the next pair to stamp.
Advance(i, t, pos) ==
    IF pos = <<0, 0>>
    THEN /\ tasks' = Ended(tasks, i, t, "completed")
         /\ students' = MarkCompleted(students, t)
    ELSE /\ tasks' = [tasks EXCEPT ![i] =
                         [t EXCEPT !.pc = "stamping", !.e = pos[1], !.l = pos[2]]]
         /\ UNCHANGED students

\* A copy that fails beyond the last page only.
CopyFailsBeyond(pageNum, pageCount) == pageNum > pageCount

\* problemPdf.copyPages(originalPdfDoc, [pageNum - 1]) throws when the
\* document has no page at that index.
CopyFails(pageNum, pageCount) == pageNum < 1 \/ pageNum > pageCount

\* A task that reads the name from the student object when it stamps.
TaskNameOfStudent(t, roster) == IF t.stale THEN t.name ELSE roster[t.sid].name

\* The name and the labels a task works with are the parameters of its call,
\* not the fields of the student object.
TaskName(t, roster) == t.name

TaskLabels(t, roster) == t.labels

\* After fs.readFile and PDFDocument.load: either throws, or the loops
\* start and run to the first await inside them.
ProcessLoad(i) ==
    /\ i \in DOMAIN tasks
    /\ tasks[i].pc = "loading"
    /\ ~tasks[i].hung
    /\ \/ /\ ~tasks[i].onDisk \/ tasks[i].raced
          /\ Fail(i, ReadError)
       \/ /\ tasks[i].onDisk
          /\ ~tasks[i].doc.ok
          /\ Fail(i, ParseError)
       \/ /\ tasks[i].onDisk
          /\ tasks[i].doc.ok
          /\ Advance(i, tasks[i],
                     NextPair(TaskLabels(tasks[i], students), tasks[i].doc.pages, 1, 1))
          /\ UNCHANGED problemPages
    /\ response' = NoResponse
    /\ UNCHANGED <<finalPdfs, finalizers, resetting>>

\* One pair: copyPages throws, or the copy is stamped, saved and pushed, and
\* the loops run on to the next await or to the end.
ProcessStamp(i) ==
    /\ i \in DOMAIN tasks
    /\ tasks[i].pc = "stamping"
    /\ ~tasks[i].hung
    /\ LET t == tasks[i]
           pageLabels == TaskLabels(t, students)
           pageNum == pageLabels[t.e][1]
           problemNumber == pageLabels[t.e][2][t.l]
           page == ProblemPage(t.sid, TaskName(t, students), pageNum, problemNumber)
       IN  IF CopyFails(pageNum, t.doc.pages)
           THEN Fail(i, CopyError)
           ELSE /\ problemPages' = PushPage(problemPages, problemNumber, page)
                /\ Advance(i, [t EXCEPT !.out = Append(@, <<problemNumber, page>>)],
                           NextPair(pageLabels, t.doc.pages, t.e, t.l + 1))
    /\ response' = NoResponse
    /\ UNCHANGED <<finalPdfs, finalizers, resetting>>

\* The promise a task awaits (a read, a parse, a save) never settles: the
\* code sets no timeout, the task stays where it is.
Hang(i) ==
    /\ i \in DOMAIN tasks
    /\ tasks[i].pc \in {"loading", "stamping"}
    /\ ~tasks[i].hung
    /\ tasks' = [tasks EXCEPT ![i].hung = TRUE]
    /\ response' = NoResponse
    /\ UNCHANGED <<students, problemPages, finalPdfs, finalizers, resetting>>

(***************************************************************************)
(* POST /api/label.                                                        *)
(***************************************************************************)
\* A handler that acknowledges and starts the task without storing the name.
LabelNotStored(studentId, studentName, pageLabels) ==
    LET i == FindStudent(students, studentId)
    IN  IF i = 0
        THEN /\ response' = [op |-> "label", code |-> 404,
                             body |-> [error |-> "Student not found"]]
             /\ UNCHANGED <<students, problemPages, finalPdfs, tasks, finalizers,
                            resetting>>
        ELSE /\ students' = [students EXCEPT ![i].pageLabels = pageLabels,
                                             ![i].processingStatus = "processing"]
             /\ tasks' = Append(tasks, StartTask(students, studentId, studentName, pageLabels))
             /\ response' = [op |-> "label", code |-> 200,
                             body |-> [success |-> TRUE, processingStatus |-> "processing"]]
             /\ UNCHANGED <<problemPages, finalPdfs, finalizers, resetting>>

\* A handler that leaves the status to a later step of the task.
LabelStatusLater(studentId, studentName, pageLabels) ==
    LET i == FindStudent(students, studentId)
    IN  IF i = 0
        THEN /\ response' = [op |-> "label", code |-> 404,
                             body |-> [error |-> "Student not found"]]
             /\ UNCHANGED <<students, problemPages, finalPdfs, tasks, finalizers,
                            resetting>>
        ELSE /\ students' = [students EXCEPT ![i].name = studentName,
                                             ![i].pageLabels = pageLabels]
             /\ tasks' = Append(tasks, StartTask(students, studentId, studentName, pageLabels))
             /\ response' = [op |-> "label", code |-> 200,
                             body |-> [success |-> TRUE, processingStatus |-> "processing"]]
             /\ UNCHANGED <<problemPages, finalPdfs, finalizers, resetting>>

Label(studentId, studentName, pageLabels) ==
    LET i == FindStudent(students, studentId)
    IN  IF i = 0
        THEN /\ response' = [op |-> "label", code |-> 404,
                             body |-> [error |-> "Student not found"]]
             /\ UNCHANGED <<students, problemPages, finalPdfs, tasks, finalizers,
                            resetting>>
        ELSE /\ students' = [students EXCEPT ![i].name = studentName,
                                             ![i].pageLabels = pageLabels,
                                             ![i].processingStatus = "processing"]
             /\ tasks' = Append(tasks, StartTask(students, studentId, studentName, pageLabels))
             /\ response' = [op |-> "label", code |-> 200,
                             body |-> [success |-> TRUE, processingStatus |-> "processing"]]
             /\ UNCHANGED <<problemPages, finalPdfs, finalizers, resetting>>

(***************************************************************************)
(* POST /api/finalize.  The handler awaits PDFDocument.create, then per    *)
(* page load and copyPages, then save; sessionData is read again at every  *)
(* use, the array `pages` is the one found when its loop started.          *)
(***************************************************************************)
\* A finalize that gives up while a student is processing.
LookupNotReady(f, pp) ==
    IF f.keys[f.k] \in DOMAIN pp
       /\ \A s \in DOMAIN students : students[s].processingStatus # "processing"
    THEN [f EXCEPT !.ref = "live", !.pages = <<>>, !.j = 0, !.built = <<>>,
                   !.pc = "create"]
    ELSE [f EXCEPT !.ref = "undefined", !.pages = <<>>, !.j = 0, !.built = <<>>,
                   !.pc = "create"]

\* const pages = sessionData.problemPages[problemNumber]: the array of the
\* current store ("live"), or undefined.
Lookup(f, pp) ==
    IF f.keys[f.k] \in DOMAIN pp
    THEN [f EXCEPT !.ref = "live", !.pages = <<>>, !.j = 0, !.built = <<>>,
                   !.pc = "create"]
    ELSE [f EXCEPT !.ref = "undefined", !.pages = <<>>, !.j = 0, !.built = <<>>,
                   !.pc = "create"]

\* A finalize that copies the first page of a collection only.
PagesOfFirst(f, pp) ==
    IF f.ref = "live" THEN SubSeq(pp[f.keys[f.k]], 1, 1) ELSE SubSeq(f.pages, 1, 1)

\* The array a finalize iterates: the live one, or the one of a replaced store.
PagesOf(f, pp) == IF f.ref = "live" THEN pp[f.keys[f.k]] ELSE f.pages

\* A finalize that stores every page it copied twice.
StoreFinalTwice(fp, problemNumber, built) ==
    IF problemNumber \in DOMAIN fp
    THEN [fp EXCEPT ![problemNumber] = built \o built]
    ELSE fp @@ (problemNumber :> built \o built)

\* A finalize that adds what it built to the document it finds.
StoreFinalAppend(fp, problemNumber, built) ==
    IF problemNumber \in DOMAIN fp
    THEN [fp EXCEPT ![problemNumber] = @ \o built]
    ELSE fp @@ (problemNumber :> built)

\* A finalize that keeps the document it finds.
StoreFinalOnce(fp, problemNumber, built) ==
    IF problemNumber \in DOMAIN fp
    THEN fp
    ELSE fp @@ (problemNumber :> built)

\* A finalize that stores an empty document.
StoreFinalEmpty(fp, problemNumber, built) ==
    IF problemNumber \in DOMAIN fp
    THEN [fp EXCEPT ![problemNumber] = <<>>]
    ELSE fp @@ (problemNumber :> <<>>)

\* sessionData.finalPdfs[problemNumber] = Buffer.from(finalPdfBytes)
StoreFinal(fp, problemNumber, built) ==
    IF problemNumber \in DOMAIN fp
    THEN [fp EXCEPT ![problemNumber] = built]
    ELSE fp @@ (problemNumber :> built)

FinalizeStart ==
    /\ LET keys == ObjectKeys(problemPages)
       IN  IF keys = <<>>
           THEN /\ response' = [op |-> "finalize", code |-> 200,
                                body |-> [success |-> TRUE, problems |-> keys]]
                /\ UNCHANGED finalizers
           ELSE /\ finalizers' = Append(finalizers,
                       Lookup([keys |-> keys, k |-> 1, pc |-> "create", j |-> 0,
                               built |-> <<>>, ref |-> "live", pages |-> <<>>],
                              problemPages))
                /\ response' = NoResponse
    /\ UNCHANGED <<students, problemPages, finalPdfs, tasks, resetting>>

\* After PDFDocument.create: `for (const page of pages)` starts; it throws
\* when pages is undefined, and the catch answers 500.
FinalizeCreate(i) ==
    /\ i \in DOMAIN finalizers
    /\ finalizers[i].pc = "create"
    /\ LET f == finalizers[i]
       IN  IF f.ref = "undefined"
           THEN /\ finalizers' = RemoveAt(finalizers, i)
                /\ response' = [op |-> "finalize", code |-> 500,
                                body |-> [error |-> "Failed to create final PDFs"]]
           ELSE /\ finalizers' = [finalizers EXCEPT ![i].pc =
                                     IF f.j < Len(PagesOf(f, problemPages))
                                     THEN "copy" ELSE "save"]
                /\ response' = NoResponse
    /\ UNCHANGED <<students, problemPages, finalPdfs, tasks, resetting>>

\* After load and copyPages of one page: addPage, then the iterator looks
\* at the array's current length.
FinalizeCopy(i) ==
    /\ i \in DOMAIN finalizers
    /\ finalizers[i].pc = "copy"
    /\ LET f == finalizers[i]
           pages == PagesOf(f, problemPages)
       IN  finalizers' = [finalizers EXCEPT ![i] =
               [f EXCEPT !.built = Append(@, pages[f.j + 1].pdfData),
                         !.j = f.j + 1,
                         !.pc = IF f.j + 1 < Len(pages) THEN "copy" ELSE "save"]]
    /\ response' = NoResponse
    /\ UNCHANGED <<students, problemPages, finalPdfs, tasks, resetting>>

\* After save: the final document is stored in the current store, and the
\* outer loop goes on to the next problem number or the handler answers.
FinalizeSave(i) ==
    /\ i \in DOMAIN finalizers
    /\ finalizers[i].pc = "save"
    /\ LET f == finalizers[i]
       IN  /\ finalPdfs' = StoreFinal(finalPdfs, f.keys[f.k], f.built)
           /\ IF f.k < Len(f.keys)
              THEN /\ finalizers' = [finalizers EXCEPT ![i] =
                                        Lookup([f EXCEPT !.k = f.k + 1], problemPages)]
                   /\ response' = NoResponse
              ELSE /\ finalizers' = RemoveAt(finalizers, i)
                   /\ response' = [op |-> "finalize", code |-> 200,
                                   body |-> [success |-> TRUE, problems |-> f.keys]]
    /\ UNCHANGED <<students, problemPages, tasks, resetting>>

(***************************************************************************)
(* POST /api/reset.  The handler awaits one fs.unlink per student of the   *)
(* roster it found, then replaces sessionData.  One reset at a time.       *)
(***************************************************************************)
\* A reset that keeps the final documents.
WipeKeepsFinal ==
    /\ students' = <<>>
    /\ problemPages' = <<>>
    /\ UNCHANGED finalPdfs
    /\ tasks' = Orphaned(tasks)
    /\ finalizers' = Frozen(finalizers, problemPages)
    /\ resetting' = NoReset
    /\ response' = [op |-> "reset", code |-> 200, body |-> [success |-> TRUE]]

\* sessionData = { students: [], problemPages: {}, finalPdfs: {} }
Wipe ==
    /\ students' = <<>>
    /\ problemPages' = <<>>
    /\ finalPdfs' = <<>>
    /\ tasks' = Orphaned(tasks)
    /\ finalizers' = Frozen(finalizers, problemPages)
    /\ resetting' = NoReset
    /\ response' = [op |-> "reset", code |-> 200, body |-> [success |-> TRUE]]

ResetStart ==
    /\ ~resetting.active
    /\ IF students = <<>>
       THEN Wipe
       ELSE /\ resetting' = [active |-> TRUE, next |-> 1,
                             count |-> Len(students), live |-> TRUE]
            /\ response' = NoResponse
            /\ UNCHANGED <<students, problemPages, finalPdfs, tasks, finalizers>>

\* One unlink has completed.  A read of that file still under way may
\* fail or not.
Unlinked(roster, r) ==
    IF r.live THEN [roster EXCEPT ![r.next].onDisk = FALSE] ELSE roster

Raced(ts, r) ==
    [ i \in 1..Len(ts) |->
        IF ts[i].pc = "loading" /\ ts[i].sid = r.next /\ ts[i].stale = ~r.live
        THEN [ts[i] EXCEPT !.raced = TRUE]
        ELSE ts[i] ]

ResetUnlink ==
    /\ resetting.active
    /\ IF resetting.next < resetting.count
       THEN /\ students' = Unlinked(students, resetting)
            /\ tasks' = Raced(tasks, resetting)
            /\ resetting' = [resetting EXCEPT !.next = @ + 1]
            /\ response' = NoResponse
            /\ UNCHANGED <<problemPages, finalPdfs, finalizers>>
       ELSE Wipe

(***************************************************************************)
(* GET /api/status.                                                        *)
(***************************************************************************)
CountStatus(roster, status) ==
    Cardinality({ i \in DOMAIN roster : roster[i].processingStatus = status })

\* A report that counts a student with labels as labeled, named or not.
StatusBodyUnnamed(roster, pp, fp) ==
    LET labeledStudents ==
            Cardinality({ i \in DOMAIN roster : Len(roster[i].pageLabels) > 0 })
        processingStudents == CountStatus(roster, "processing")
        errorStudents == CountStatus(roster, "error")
    IN  [ totalStudents |-> Len(roster),
          labeledStudents |-> labeledStudents,
          processingStudents |-> processingStudents,
          completedStudents |-> CountStatus(roster, "completed"),
          errorStudents |-> errorStudents,
          problems |-> ObjectKeys(pp),
          isFinalized |-> DOMAIN fp # {},
          allProcessingComplete |->
              labeledStudents > 0 /\ processingStudents = 0 /\ errorStudents = 0 ]

StatusBody(roster, pp, fp) ==
    LET labeledStudents ==
            Cardinality({ i \in DOMAIN roster :
                            roster[i].name # "" /\ Len(roster[i].pageLabels) > 0 })
        processingStudents == CountStatus(roster, "processing")
        errorStudents == CountStatus(roster, "error")
    IN  [ totalStudents |-> Len(roster),
          labeledStudents |-> labeledStudents,
          processingStudents |-> processingStudents,
          completedStudents |-> CountStatus(roster, "completed"),
          errorStudents |-> errorStudents,
          problems |-> ObjectKeys(pp),
          isFinalized |-> DOMAIN fp # {},
          allProcessingComplete |->
              labeledStudents > 0 /\ processingStudents = 0 /\ errorStudents = 0 ]

Status ==
    /\ response' = [op |-> "status", code |-> 200,
                    body |-> StatusBody(students, problemPages, finalPdfs)]
    /\ UNCHANGED <<students, problemPages, finalPdfs, tasks, finalizers,
                   resetting>>

(***************************************************************************)
(* GET /api/download/:problemId.                                           *)
(***************************************************************************)
\* The problem numbers a client may ask for: those the label inputs use,
\* and one that is never used.
ProblemIds == {1, 2, 3}

Download(problemId) ==
    /\ response' = IF problemId \in DOMAIN finalPdfs
                   THEN [op |-> "download", code |-> 200,
                         body |-> [problemId |-> problemId,
                                   pdfData |-> finalPdfs[problemId]]]
                   ELSE [op |-> "download", code |-> 404,
                         body |-> [problemId |-> problemId,
                                   error |-> "Problem PDF not found"]]
    /\ UNCHANGED <<students, problemPages, finalPdfs, tasks, finalizers,
                   resetting>>

(***************************************************************************)
(* GET /api/student/:id.  The handler awaits fs.access, fs.stat and        *)
(* fs.readFile on the student's file; it reads the name and the labels of  *)
(* the student object when it writes the headers.  Within one session its  *)
(* steps are taken as one, at the time the headers are written.            *)
(***************************************************************************)
\* A name with a character no HTTP header may carry: Lucja spelled with
\* U+0141 (L with stroke), written here with its JavaScript escape.
NonLatinName == "\\u0141ucja"

\* checkInvalidHeaderChar of Node's http module, which res.setHeader calls:
\* the value has a character outside \t, 0x20-0x7e and 0x80-0xff.
InvalidHeaderChar(value) == value = NonLatinName

\* JSON.stringify(student.pageLabels): the entries in the order of the
\* object's keys, which is the order the label handler parsed them in.
StringifyLabels(pageLabels) == pageLabels

FetchStudent(studentId) ==
    /\ LET i == FindStudent(students, studentId)
       IN  response' =
             IF i = 0
             THEN [op |-> "student", code |-> 404,
                   body |-> [studentId |-> studentId, error |-> "Student not found"]]
             ELSE IF ~students[i].onDisk
             THEN [op |-> "student", code |-> 404,
                   body |-> [studentId |-> studentId,
                             error |-> "PDF file not found on disk"]]
             ELSE IF InvalidHeaderChar(students[i].name)
             THEN [op |-> "student", code |-> 500,
                   body |-> [studentId |-> studentId,
                             error |-> "Failed to get student PDF"]]
             ELSE [op |-> "student", code |-> 200,
                   body |-> [studentId |-> studentId,
                             name |-> students[i].name,
                             pageLabels |-> StringifyLabels(students[i].pageLabels),
                             file |-> students[i].doc]]
    /\ UNCHANGED <<students, problemPages, finalPdfs, tasks, finalizers,
                   resetting>>

(***************************************************************************)
(* The server under any client.                                            *)
(***************************************************************************)
\* The requests the bounds still admit.
LabelRequest(bound) ==
    /\ Len(tasks) < bound
    /\ \E sid \in StudentIds, body \in LabelInputs :
          Label(sid, body.name, body.labels)

FinalizeRequest ==
    /\ Len(finalizers) < MaxFinalizers
    /\ FinalizeStart

Process ==
    \/ \E i \in DOMAIN tasks : ProcessLoad(i)
    \/ \E i \in DOMAIN tasks : ProcessStamp(i)

Finalize ==
    \/ \E i \in DOMAIN finalizers : FinalizeCreate(i)
    \/ \E i \in DOMAIN finalizers : FinalizeCopy(i)
    \/ \E i \in DOMAIN finalizers : FinalizeSave(i)

Next ==
    \/ (\E docs \in UploadInputs : Upload(docs)) /\ UNCHANGED client
    \/ UploadNoFiles /\ UNCHANGED client
    \/ LabelRequest(MaxSubmitsBeside) /\ UNCHANGED client
    \/ Process /\ UNCHANGED client
    \/ FinalizeRequest /\ UNCHANGED client
    \/ Finalize /\ UNCHANGED client
    \/ ResetStart /\ UNCHANGED client
    \/ ResetUnlink /\ UNCHANGED client
    \/ Status /\ UNCHANGED client

Spec == Init /\ [][Next]_vars

(***************************************************************************)
(* One session: a single upload, then submits and their tasks.             *)
(***************************************************************************)
FirstUpload == \E docs \in UploadInputs : students = <<>> /\ Upload(docs)

NextTasks ==
    \/ FirstUpload /\ UNCHANGED client
    \/ LabelRequest(MaxSubmits) /\ UNCHANGED client
    \/ (\E i \in DOMAIN tasks : ProcessLoad(i)) /\ UNCHANGED client
    \/ (\E i \in DOMAIN tasks : ProcessStamp(i)) /\ UNCHANGED client
    \/ Status /\ UNCHANGED client

SpecTasks == Init /\ [][NextTasks]_vars

(***************************************************************************)
(* One session with finalize requests.                                     *)
(***************************************************************************)
NextSession ==
    \/ FirstUpload /\ UNCHANGED client
    \/ LabelRequest(MaxSubmitsBeside) /\ UNCHANGED client
    \/ (\E i \in DOMAIN tasks : ProcessLoad(i)) /\ UNCHANGED client
    \/ (\E i \in DOMAIN tasks : ProcessStamp(i)) /\ UNCHANGED client
    \/ FinalizeRequest /\ UNCHANGED client
    \/ (\E i \in DOMAIN finalizers : FinalizeCreate(i)) /\ UNCHANGED client
    \/ (\E i \in DOMAIN finalizers : FinalizeCopy(i)) /\ UNCHANGED client
    \/ (\E i \in DOMAIN finalizers : FinalizeSave(i)) /\ UNCHANGED client

SpecSession == Init /\ [][NextSession]_vars

(***************************************************************************)
(* One session in which an awaited step of a task may never settle.  The   *)
(* event loop runs every continuation whose awaited step has settled:      *)
(* weak fairness for each step of each task.                               *)
(***************************************************************************)
\* The submits of this session: a label assignment that completes and one
\* that fails after its first page, for students of the roster.
FairInputs == { body \in LabelInputs : body.name = "ann" }

FairLabelRequest ==
    /\ Len(tasks) < MaxSubmits
    /\ \E sid \in {1, 2}, body \in FairInputs : Label(sid, body.name, body.labels)

NextFair ==
    \/ FirstUpload /\ UNCHANGED client
    \/ FairLabelRequest /\ UNCHANGED client
    \/ (\E i \in DOMAIN tasks : ProcessLoad(i)) /\ UNCHANGED client
    \/ (\E i \in DOMAIN tasks : ProcessStamp(i)) /\ UNCHANGED client
    \/ (\E i \in DOMAIN tasks : Hang(i)) /\ UNCHANGED client

FairTasks ==
    /\ Init /\ [][NextFair]_vars
    /\ \A i \in 1..MaxSubmits :
          /\ WF_vars(ProcessLoad(i) /\ UNCHANGED client)
          /\ WF_vars(ProcessStamp(i) /\ UNCHANGED client)

(***************************************************************************)
(* The client: App (frontend/src/App.tsx), FileUploadPage and SortingPage. *)
(* A step is one run of a handler, timer or continuation in the browser;   *)
(* a request is served in a step of its own, so the server's other work    *)
(* interleaves between sending a request and acting on its response.       *)
(* The pollStatus interval of App only displays a count and is left out.   *)
(***************************************************************************)
\* handleUpload needs at least one selected file; SortingPage shows a
\* student once its document has loaded in the viewer.
ClientUploads ==
    { docs \in UploadInputs :
        docs # <<>> /\ \A i \in DOMAIN docs : docs[i].ok }

\* What the user may have typed into the name field around a name: nothing
\* but blanks, or blanks on both sides.
BlankName == "  "
PaddedName == " ann "

\* String.prototype.trim: the white space at both ends removed.
Trim(studentName) ==
    CASE studentName = BlankName -> ""
      [] studentName = PaddedName -> "ann"
      [] OTHER -> studentName

\* Checks that take the name as typed.
CanSubmitUntrimmed(studentName, pageLabels, totalPages) ==
    /\ studentName # ""
    /\ Len(pageLabels) > 0
    /\ \A pageNum \in 1..totalPages :
          \E e \in DOMAIN pageLabels :
              pageLabels[e][1] = pageNum /\ Len(pageLabels[e][2]) > 0

\* The checks of handleSubmit and of the Submit button: a name that is not
\* blank, and a non-empty label list for every page 1..totalPages.
CanSubmit(studentName, pageLabels, totalPages) ==
    /\ Trim(studentName) # ""
    /\ totalPages > 0
    /\ Len(pageLabels) > 0
    /\ \A pageNum \in 1..totalPages :
          \E e \in DOMAIN pageLabels :
              pageLabels[e][1] = pageNum /\ Len(pageLabels[e][2]) > 0

\* FileUploadPage.handleUpload, the served request, and onUploadComplete.
HandleUpload(docs) ==
    /\ appState.phase = "upload"
    /\ Upload(docs)
    /\ appState' = [phase |-> "sorting",
                    totalStudents |-> response'.body.totalStudents,
                    currentStudentId |-> 1,
                    problems |-> <<>>,
                    prefetchedStudentData |-> NoData]
    /\ UNCHANGED <<sorting, chains, finalizeCalls>>

\* SortingPage.handleSubmit up to its fetch: the button is enabled, the
\* checks pass, isSaving is set and POST /api/label is sent.
ClickSubmit(body) ==
    /\ appState.phase = "sorting"
    /\ ~sorting.isSaving
    /\ CanSubmit(body.name, body.labels,
                 students[appState.currentStudentId].doc.pages)
    /\ sorting' = [isSaving |-> TRUE, pc |-> "posting",
                   studentId |-> appState.currentStudentId,
                   body |-> [name |-> Trim(body.name), labels |-> body.labels],
                   ok |-> FALSE]
    /\ response' = NoResponse
    /\ UNCHANGED <<students, problemPages, finalPdfs, tasks, finalizers,
                   resetting, appState, chains, finalizeCalls>>

\* The server handles the label request.
ServeLabel ==
    /\ sorting.pc = "posting"
    /\ Label(sorting.studentId, sorting.body.name, sorting.body.labels)
    /\ sorting' = [sorting EXCEPT !.pc = "posted",
                                  !.ok = (response'.code = 200)]
    /\ UNCHANGED <<appState, chains, finalizeCalls>>

\* handleSubmit after its fetch: setTimeout(onStudentComplete, 300) when
\* the result is a success, then setTimeout(setIsSaving(false), 300).
SubmitResponse ==
    /\ sorting.pc = "posted"
    /\ sorting' = [sorting EXCEPT !.pc = IF sorting.ok THEN "complete" ELSE "saving"]
    /\ response' = NoResponse
    /\ UNCHANGED <<students, problemPages, finalPdfs, tasks, finalizers,
                   resetting, appState, chains, finalizeCalls>>

\* A call of finalizeAndShowDownload: its status request is sent.
NewChain == [pc |-> "poll", processingStudents |-> 0, errorStudents |-> 0,
             ok |-> FALSE, problems |-> <<>>]

\* The first timer: App.handleStudentComplete.
HandleStudentComplete ==
    /\ sorting.pc = "complete"
    /\ IF appState.currentStudentId < appState.totalStudents
       THEN /\ appState' =
                 [appState EXCEPT
                    !.currentStudentId = @ + 1,
                    !.prefetchedStudentData =
                       IF @.studentId = appState.currentStudentId + 1
                       THEN @ ELSE NoData]
            /\ UNCHANGED chains
       ELSE /\ chains' = Append(chains, NewChain)
            /\ UNCHANGED appState
    /\ sorting' = [sorting EXCEPT !.pc = "saving"]
    /\ response' = NoResponse
    /\ UNCHANGED <<students, problemPages, finalPdfs, tasks, finalizers,
                   resetting, finalizeCalls>>

\* The second timer: setIsSaving(false).
SavingTimer ==
    /\ sorting.pc = "saving"
    /\ sorting' = Idle
    /\ response' = NoResponse
    /\ UNCHANGED <<students, problemPages, finalPdfs, tasks, finalizers,
                   resetting, appState, chains, finalizeCalls>>

\* The server handles the status request of chain c.
ServeStatus(c) ==
    /\ chains[c].pc = "poll"
    /\ Status
    /\ chains' = [chains EXCEPT ![c].pc = "polled",
                    ![c].processingStudents = response'.body.processingStudents,
                    ![c].errorStudents = response'.body.errorStudents]
    /\ UNCHANGED <<appState, sorting, finalizeCalls>>

\* A client that gives up when the status reports students in error.
ChainPolledStopsOnError(c) ==
    /\ chains[c].pc = "polled"
    /\ IF chains[c].processingStudents > 0
       THEN /\ chains' = [chains EXCEPT ![c].pc = "wait"]
            /\ UNCHANGED finalizeCalls
       ELSE IF chains[c].errorStudents > 0
       THEN /\ chains' = [chains EXCEPT ![c].pc = "stopped"]
            /\ UNCHANGED finalizeCalls
       ELSE /\ chains' = [chains EXCEPT ![c].pc = "finalize"]
            /\ finalizeCalls' = finalizeCalls + 1
    /\ response' = NoResponse
    /\ UNCHANGED <<students, problemPages, finalPdfs, tasks, finalizers,
                   resetting, appState, sorting>>

\* finalizeAndShowDownload after its status fetch: wait 2 s and call itself
\* again while students are processing, else send POST /api/finalize.
ChainPolled(c) ==
    /\ chains[c].pc = "polled"
    /\ IF chains[c].processingStudents > 0
       THEN /\ chains' = [chains EXCEPT ![c].pc = "wait"]
            /\ UNCHANGED finalizeCalls
       ELSE /\ chains' = [chains EXCEPT ![c].pc = "finalize"]
            /\ finalizeCalls' = finalizeCalls + 1
    /\ response' = NoResponse
    /\ UNCHANGED <<students, problemPages, finalPdfs, tasks, finalizers,
                   resetting, appState, sorting>>

\* setTimeout(finalizeAndShowDownload, 2000) fires.
ChainTimer(c) ==
    /\ chains[c].pc = "wait"
    /\ chains' = [chains EXCEPT ![c].pc = "poll"]
    /\ response' = NoResponse
    /\ UNCHANGED <<students, problemPages, finalPdfs, tasks, finalizers,
                   resetting, appState, sorting, finalizeCalls>>

\* The chain whose finalize request the server is handling gets the
\* response the step has sent, if it has sent one.
Delivered(cs, sent) ==
    IF sent.op # "finalize" THEN cs
    ELSE [ c \in DOMAIN cs |->
             IF cs[c].pc = "finalizing"
             THEN [cs[c] EXCEPT !.pc = "answered",
                                !.ok = (sent.code = 200),
                                !.problems = IF sent.code = 200
                                             THEN sent.body.problems ELSE <<>>]
             ELSE cs[c] ]

\* The server starts to handle the finalize request of chain c.
ServeFinalize(c) ==
    /\ chains[c].pc = "finalize"
    /\ FinalizeRequest
    /\ chains' = Delivered([chains EXCEPT ![c].pc = "finalizing"], response')
    /\ UNCHANGED <<appState, sorting, finalizeCalls>>

\* A later step of the finalize handler.
ServeFinalizeStep(i) ==
    /\ FinalizeCreate(i) \/ FinalizeCopy(i) \/ FinalizeSave(i)
    /\ chains' = Delivered(chains, response')
    /\ UNCHANGED <<appState, sorting, finalizeCalls>>

\* A client that stays in the sorting phase when finalize has answered.
ChainAnsweredStays(c) ==
    /\ chains[c].pc = "answered"
    /\ chains' = RemoveAt(chains, c)
    /\ response' = NoResponse
    /\ UNCHANGED <<students, problemPages, finalPdfs, tasks, finalizers,
                   resetting, appState, sorting, finalizeCalls>>

\* finalizeAndShowDownload after its finalize fetch: the download phase on
\* success.
ChainAnswered(c) ==
    /\ chains[c].pc = "answered"
    /\ chains' = RemoveAt(chains, c)
    /\ appState' = IF chains[c].ok
                   THEN [appState EXCEPT !.phase = "download",
                                         !.problems = chains[c].problems]
                   ELSE appState
    /\ response' = NoResponse
    /\ UNCHANGED <<students, problemPages, finalPdfs, tasks, finalizers,
                   resetting, sorting, finalizeCalls>>

NextClient ==
    \/ (\E docs \in ClientUploads : HandleUpload(docs)) /\ UNCHANGED <<labeling, viewer>>
    \/ (\E body \in LabelInputs : Len(tasks) < MaxSubmits /\ ClickSubmit(body))
          /\ UNCHANGED <<labeling, viewer>>
    \/ ServeLabel /\ UNCHANGED <<labeling, viewer>>
    \/ SubmitResponse /\ UNCHANGED <<labeling, viewer>>
    \/ HandleStudentComplete /\ UNCHANGED <<labeling, viewer>>
    \/ SavingTimer /\ UNCHANGED <<labeling, viewer>>
    \/ (\E i \in DOMAIN tasks : ProcessLoad(i)) /\ UNCHANGED client
    \/ (\E i \in DOMAIN tasks : ProcessStamp(i)) /\ UNCHANGED client
    \/ (\E c \in DOMAIN chains : ServeStatus(c)) /\ UNCHANGED <<labeling, viewer>>
    \/ (\E c \in DOMAIN chains : ChainPolled(c)) /\ UNCHANGED <<labeling, viewer>>
    \/ (\E c \in DOMAIN chains : ChainTimer(c)) /\ UNCHANGED <<labeling, viewer>>
    \/ (\E c \in DOMAIN chains : ServeFinalize(c)) /\ UNCHANGED <<labeling, viewer>>
    \/ (\E i \in DOMAIN finalizers : ServeFinalizeStep(i)) /\ UNCHANGED <<labeling, viewer>>
    \/ (\E c \in DOMAIN chains : ChainAnswered(c)) /\ UNCHANGED <<labeling, viewer>>

SpecClient == Init /\ [][NextClient]_vars

(***************************************************************************)
(* One session in which finalize is requested while no task is running     *)
(* and no submit arrives while a finalize request is handled: the          *)
(* collections do not change while finalize reads them.                    *)
(***************************************************************************)
Quiet == \A i \in DOMAIN tasks : tasks[i].pc \notin {"loading", "stamping"}

NextQuiet ==
    \/ FirstUpload /\ UNCHANGED client
    \/ (finalizers = <<>> /\ LabelRequest(MaxSubmits)) /\ UNCHANGED client
    \/ (\E i \in DOMAIN tasks : ProcessLoad(i)) /\ UNCHANGED client
    \/ (\E i \in DOMAIN tasks : ProcessStamp(i)) /\ UNCHANGED client
    \/ (Quiet /\ FinalizeRequest) /\ UNCHANGED client
    \/ (\E i \in DOMAIN finalizers : FinalizeCreate(i)) /\ UNCHANGED client
    \/ (\E i \in DOMAIN finalizers : FinalizeCopy(i)) /\ UNCHANGED client
    \/ (\E i \in DOMAIN finalizers : FinalizeSave(i)) /\ UNCHANGED client

SpecQuiet == Init /\ [][NextQuiet]_vars

(***************************************************************************)
(* Sessions that follow each other: uploads and resets beside a task and a *)
(* finalize request, and downloads.  One student is submitted, with the    *)
(* label assignment that fills two collections.                            *)
(***************************************************************************)
StoreUploads == { docs \in UploadInputs : \A i \in DOMAIN docs : docs[i].ok }

StoreInputs == { body \in LabelInputs : body.labels[1][2] = <<1, 2>> }

StoreLabelRequest ==
    /\ Len(tasks) < MaxSubmitsBeside
    /\ \E body \in StoreInputs : Label(1, body.name, body.labels)

NextStore ==
    \/ (\E docs \in StoreUploads : Upload(docs)) /\ UNCHANGED client
    \/ StoreLabelRequest /\ UNCHANGED client
    \/ (\E i \in DOMAIN tasks : ProcessLoad(i)) /\ UNCHANGED client
    \/ (\E i \in DOMAIN tasks : ProcessStamp(i)) /\ UNCHANGED client
    \/ FinalizeRequest /\ UNCHANGED client
    \/ (\E i \in DOMAIN finalizers : FinalizeCreate(i)) /\ UNCHANGED client
    \/ (\E i \in DOMAIN finalizers : FinalizeCopy(i)) /\ UNCHANGED client
    \/ (\E i \in DOMAIN finalizers : FinalizeSave(i)) /\ UNCHANGED client
    \/ ResetStart /\ UNCHANGED client
    \/ ResetUnlink /\ UNCHANGED client
    \/ (\E problemId \in ProblemIds : Download(problemId)) /\ UNCHANGED client

SpecStore == Init /\ [][NextStore]_vars

(***************************************************************************)
(* Sessions that follow each other, each upload wiping the one before,     *)
(* with finalize requested while no task is running.                       *)
(***************************************************************************)
NextUploads ==
    \/ (\E docs \in UploadInputs : Upload(docs)) /\ UNCHANGED client
    \/ (finalizers = <<>> /\ StoreLabelRequest) /\ UNCHANGED client
    \/ (\E i \in DOMAIN tasks : ProcessLoad(i)) /\ UNCHANGED client
    \/ (\E i \in DOMAIN tasks : ProcessStamp(i)) /\ UNCHANGED client
    \/ (Quiet /\ FinalizeRequest) /\ UNCHANGED client
    \/ (\E i \in DOMAIN finalizers : FinalizeCreate(i)) /\ UNCHANGED client
    \/ (\E i \in DOMAIN finalizers : FinalizeCopy(i)) /\ UNCHANGED client
    \/ (\E i \in DOMAIN finalizers : FinalizeSave(i)) /\ UNCHANGED client

SpecUploads == Init /\ [][NextUploads]_vars

(***************************************************************************)
(* Sessions that end in a reset: uploads, one submitted student, finalize  *)
(* requested while no task is running, resets at any time, and status      *)
(* requests.                                                               *)
(***************************************************************************)
NextReset ==
    \/ (\E docs \in StoreUploads : Upload(docs)) /\ UNCHANGED client
    \/ (finalizers = <<>> /\ StoreLabelRequest) /\ UNCHANGED client
    \/ (\E i \in DOMAIN tasks : ProcessLoad(i)) /\ UNCHANGED client
    \/ (\E i \in DOMAIN tasks : ProcessStamp(i)) /\ UNCHANGED client
    \/ (Quiet /\ FinalizeRequest) /\ UNCHANGED client
    \/ (\E i \in DOMAIN finalizers : FinalizeCreate(i)) /\ UNCHANGED client
    \/ (\E i \in DOMAIN finalizers : FinalizeCopy(i)) /\ UNCHANGED client
    \/ (\E i \in DOMAIN finalizers : FinalizeSave(i)) /\ UNCHANGED client
    \/ ResetStart /\ UNCHANGED client
    \/ ResetUnlink /\ UNCHANGED client
    \/ Status /\ UNCHANGED client

SpecReset == Init /\ [][NextReset]_vars

(***************************************************************************)
(* One session whose submits put several pages of a student in the same    *)
(* collection: the tasks of two students interleave.                       *)
(***************************************************************************)
\* Label assignments with two problems on a page and one problem on two
\* pages.
OrderInputs ==
    { [name |-> "ann", labels |-> << <<1, <<1, 2>>>>, <<2, <<1>>>> >>],
      [name |-> "bob", labels |-> << <<1, <<2>>>>, <<2, <<2, 1>>>> >>] }

OrderLabelRequest ==
    /\ Len(tasks) < MaxSubmits
    /\ \E sid \in {1, 2}, body \in OrderInputs : Label(sid, body.name, body.labels)

NextOrder ==
    \/ FirstUpload /\ UNCHANGED client
    \/ OrderLabelRequest /\ UNCHANGED client
    \/ (\E i \in DOMAIN tasks : ProcessLoad(i)) /\ UNCHANGED client
    \/ (\E i \in DOMAIN tasks : ProcessStamp(i)) /\ UNCHANGED client

SpecOrder == Init /\ [][NextOrder]_vars

(***************************************************************************)
(* One session with status requests: submits with and without a name,      *)
(* documents that can and that cannot be parsed, finalize requested while  *)
(* no task is running.                                                     *)
(***************************************************************************)
\* The submit that fills two collections, and one that carries no name.
StatusInputs ==
    StoreInputs \cup { [name |-> "", labels |-> << <<1, <<1>>>> >>] }

StatusLabelRequest ==
    /\ Len(tasks) < MaxSubmits
    /\ finalizers = <<>>
    /\ \E sid \in {1, 2}, body \in StatusInputs : Label(sid, body.name, body.labels)

NextStatus ==
    \/ FirstUpload /\ UNCHANGED client
    \/ StatusLabelRequest /\ UNCHANGED client
    \/ (\E i \in DOMAIN tasks : ProcessLoad(i)) /\ UNCHANGED client
    \/ (\E i \in DOMAIN tasks : ProcessStamp(i)) /\ UNCHANGED client
    \/ (Quiet /\ FinalizeRequest) /\ UNCHANGED client
    \/ (\E i \in DOMAIN finalizers : FinalizeCreate(i)) /\ UNCHANGED client
    \/ (\E i \in DOMAIN finalizers : FinalizeCopy(i)) /\ UNCHANGED client
    \/ (\E i \in DOMAIN finalizers : FinalizeSave(i)) /\ UNCHANGED client
    \/ Status /\ UNCHANGED client

SpecStatus == Init /\ [][NextStatus]_vars

(***************************************************************************)
(* The Label Assignment on the client: SortingPage's pageLabels state, its *)
(* label handlers, the buttons of PageLabeler, the chips of PDFViewer and  *)
(* the keyboard shortcuts.  A step is one event handler with the state     *)
(* updates it queues; every handler sees the state the last one left.      *)
(***************************************************************************)
\* The pages of the document on screen.
Pages == {1, 2}

\* The quick button pressed (the page shows the buttons 1 to 15).
QuickProblems == {1}

\* The number typed in the custom field.
CustomProblems == {10}

\* The digit keys pressed.
DigitKeys == {0, 1}

NOT_A_PROBLEM == 0 - 1

Includes(s, x) == \E k \in DOMAIN s : s[k] = x

\* newLabels[pageNumber] || []
CurrentProblems(labels, pageNumber) ==
    IF pageNumber \in DOMAIN labels THEN labels[pageNumber] ELSE <<>>

\* newLabels[pageNumber] = list
SetEntry(labels, pageNumber, list) ==
    [ q \in DOMAIN labels \cup {pageNumber} |->
        IF q = pageNumber THEN list ELSE labels[q] ]

\* delete newLabels[pageNumber]
DeleteEntry(labels, pageNumber) ==
    [ q \in DOMAIN labels \ {pageNumber} |-> labels[q] ]

\* A removal that keeps the entry of the page, empty or not.
ShrunkKeepsEntry(labels, pageNumber, list) == SetEntry(labels, pageNumber, list)

\* The entry after a removal: deleted when nothing is left.
Shrunk(labels, pageNumber, list) ==
    IF Len(list) = 0 THEN DeleteEntry(labels, pageNumber)
    ELSE SetEntry(labels, pageNumber, list)

\* An updater that adds a number the page already has.
HandlePageLabelRepeats(prev, pageNumber, problemNumber) ==
    LET currentProblems == CurrentProblems(prev, pageNumber)
    IN  IF problemNumber = -1
        THEN SetEntry(prev, pageNumber, <<-1>>)
        ELSE IF problemNumber > 0 /\ ~Includes(currentProblems, -1)
             THEN SetEntry(prev, pageNumber, Append(currentProblems, problemNumber))
             ELSE prev

\* An updater that adds a positive number beside the sentinel.
HandlePageLabelOverSentinel(prev, pageNumber, problemNumber) ==
    LET currentProblems == CurrentProblems(prev, pageNumber)
    IN  IF problemNumber = -1
        THEN SetEntry(prev, pageNumber, <<-1>>)
        ELSE IF problemNumber > 0 /\ ~Includes(currentProblems, problemNumber)
             THEN SetEntry(prev, pageNumber, Append(currentProblems, problemNumber))
             ELSE prev

\* The updater of handlePageLabel.
HandlePageLabel(prev, pageNumber, problemNumber) ==
    LET currentProblems == CurrentProblems(prev, pageNumber)
    IN  IF problemNumber = -1
        THEN SetEntry(prev, pageNumber, <<-1>>)
        ELSE IF /\ problemNumber > 0
                /\ ~Includes(currentProblems, -1)
                /\ ~Includes(currentProblems, problemNumber)
             THEN SetEntry(prev, pageNumber, Append(currentProblems, problemNumber))
             ELSE prev

\* A keyboard updater that adds a positive number beside the sentinel.
HandleKeyboardPageLabelOverSentinel(prev, pageNumber, problemNumber) ==
    LET currentProblems == CurrentProblems(prev, pageNumber)
    IN  IF problemNumber = -1
        THEN SetEntry(prev, pageNumber, <<-1>>)
        ELSE IF problemNumber > 0
             THEN SetEntry(prev, pageNumber, Append(currentProblems, problemNumber))
             ELSE prev

\* A keyboard updater that adds the sentinel to the labels of the page.
HandleKeyboardPageLabelKeepsLabels(prev, pageNumber, problemNumber) ==
    LET currentProblems == CurrentProblems(prev, pageNumber)
    IN  IF problemNumber = -1
        THEN SetEntry(prev, pageNumber, Append(currentProblems, -1))
        ELSE IF problemNumber > 0 /\ ~Includes(currentProblems, -1)
             THEN SetEntry(prev, pageNumber, Append(currentProblems, problemNumber))
             ELSE prev

\* The updater of handleKeyboardPageLabel.
HandleKeyboardPageLabel(prev, pageNumber, problemNumber) ==
    LET currentProblems == CurrentProblems(prev, pageNumber)
    IN  IF problemNumber = -1
        THEN SetEntry(prev, pageNumber, <<-1>>)
        ELSE IF problemNumber > 0 /\ ~Includes(currentProblems, -1)
             THEN SetEntry(prev, pageNumber, Append(currentProblems, problemNumber))
             ELSE prev

\* The updater of handleRemovePageLabel.
HandleRemovePageLabel(prev, pageNumber, problemNumber) ==
    Shrunk(prev, pageNumber,
           SelectSeq(CurrentProblems(prev, pageNumber),
                     LAMBDA p : p # problemNumber))

\* currentProblems.lastIndexOf(problemNumber), 0 when absent.
LastIndexOf(s, x) ==
    IF Includes(s, x)
    THEN CHOOSE k \in DOMAIN s : s[k] = x /\ \A j \in DOMAIN s : s[j] = x => j <= k
    ELSE 0

\* The updater of handleRemoveLastInstancePageLabel.
HandleRemoveLastInstancePageLabel(prev, pageNumber, problemNumber) ==
    LET currentProblems == CurrentProblems(prev, pageNumber)
        lastIndex == LastIndexOf(currentProblems, problemNumber)
    IN  IF lastIndex # 0
        THEN Shrunk(prev, pageNumber, RemoveAt(currentProblems, lastIndex))
        ELSE prev

\* The updater of handleRemoveLastLabel.
HandleRemoveLastLabel(prev, pageNumber) ==
    LET currentProblems == CurrentProblems(prev, pageNumber)
    IN  IF Len(currentProblems) > 0
        THEN Shrunk(prev, pageNumber,
                    SubSeq(currentProblems, 1, Len(currentProblems) - 1))
        ELSE prev

\* The record of a call of a label handler on the assignment prev.
Called(handler, prev, pageNumber, problemNumber) ==
    [handler |-> handler, pageNumber |-> pageNumber,
     problemNumber |-> problemNumber,
     before |-> CurrentProblems(prev, pageNumber)]

\* Everything but the labels of SortingPage.
beside == <<students, problemPages, finalPdfs, tasks, finalizers, resetting,
            response, appState, sorting, chains, finalizeCalls, viewer>>

\* setPageLabels with the result of an updater, after the call `call`.
Updated(new, call) ==
    labeling' = [labeling EXCEPT !.pageLabels = new, !.lastCall = call]

\* PageLabeler.handleQuickLabel: a quick button toggles its number.
HandleQuickLabel(problemNumber) ==
    /\ LET prev == labeling.pageLabels
           page == labeling.currentPage
       IN  IF Includes(CurrentProblems(prev, page), problemNumber)
           THEN Updated(HandleRemovePageLabel(prev, page, problemNumber),
                        Called("handleRemovePageLabel", prev, page, problemNumber))
           ELSE Updated(HandlePageLabel(prev, page, problemNumber),
                        Called("handlePageLabel", prev, page, problemNumber))
    /\ UNCHANGED beside

\* PageLabeler.handleNotAProblem: the button toggles the sentinel.
HandleNotAProblem ==
    /\ LET prev == labeling.pageLabels
           page == labeling.currentPage
       IN  IF Includes(CurrentProblems(prev, page), NOT_A_PROBLEM)
           THEN Updated(HandleRemovePageLabel(prev, page, NOT_A_PROBLEM),
                        Called("handleRemovePageLabel", prev, page, NOT_A_PROBLEM))
           ELSE Updated(HandlePageLabel(prev, page, NOT_A_PROBLEM),
                        Called("handlePageLabel", prev, page, NOT_A_PROBLEM))
    /\ UNCHANGED beside

\* PageLabeler.handleCustomLabel: the number typed in the field is added.
HandleCustomLabel(problemNumber) ==
    /\ problemNumber > 0
    /\ LET prev == labeling.pageLabels
           page == labeling.currentPage
       IN  Updated(HandlePageLabel(prev, page, problemNumber),
                   Called("handlePageLabel", prev, page, problemNumber))
    /\ UNCHANGED beside

RECURSIVE RemoveEach(_, _, _)
\* currentProblems.forEach(n => onRemovePageLabel(currentPage, n)): the
\* removals are applied one after the other.
RemoveEach(prev, pageNumber, problemNums) ==
    IF problemNums = <<>> THEN prev
    ELSE RemoveEach(HandleRemovePageLabel(prev, pageNumber, Head(problemNums)),
                    pageNumber, Tail(problemNums))

\* PageLabeler.handleClearLabel; the button shows while the page has labels.
HandleClearLabel ==
    /\ LET prev == labeling.pageLabels
           page == labeling.currentPage
           currentProblems == CurrentProblems(prev, page)
           n == Len(currentProblems)
           mid == RemoveEach(prev, page, SubSeq(currentProblems, 1, n - 1))
       IN  /\ n > 0
           /\ Updated(HandleRemovePageLabel(mid, page, currentProblems[n]),
                      Called("handleRemovePageLabel", mid, page, currentProblems[n]))
    /\ UNCHANGED beside

\* PDFViewer: the delete icon of the chip of a label of the page.
ChipDelete(problemNumber) ==
    /\ LET prev == labeling.pageLabels
           page == labeling.currentPage
       IN  /\ Includes(CurrentProblems(prev, page), problemNumber)
           /\ Updated(HandleRemovePageLabel(prev, page, problemNumber),
                      Called("handleRemovePageLabel", prev, page, problemNumber))
    /\ UNCHANGED beside

\* handleKeyDown for a digit.  inWindow: a digit is remembered and fewer
\* than 500 ms have passed since it was pressed.
KeyDigit(key, inWindow) ==
    /\ inWindow => labeling.lastAddedProblem # 0
    /\ LET prev == labeling.pageLabels
           page == labeling.currentPage
           currentProblems == CurrentProblems(prev, page)
           last == labeling.lastAddedProblem
           combinedNumber == 10 * last + key
           mid == IF labeling.lastAddedWasNew
                  THEN HandleRemoveLastInstancePageLabel(prev, page, last)
                  ELSE prev
       IN  IF inWindow
           THEN labeling' =
                  [labeling EXCEPT
                     !.pageLabels =
                        IF Includes(currentProblems, combinedNumber) THEN prev
                        ELSE HandleKeyboardPageLabel(mid, page, combinedNumber),
                     !.lastCall =
                        IF Includes(currentProblems, combinedNumber) THEN @
                        ELSE Called("handleKeyboardPageLabel", mid, page, combinedNumber),
                     !.lastAddedProblem = 0,
                     !.lastAddedWasNew = FALSE]
           ELSE IF key = 0
           THEN labeling' = [labeling EXCEPT !.lastAddedProblem = 0,
                                             !.lastAddedWasNew = FALSE]
           ELSE labeling' =
                  [labeling EXCEPT
                     !.pageLabels =
                        IF Includes(currentProblems, key) THEN prev
                        ELSE HandleKeyboardPageLabel(prev, page, key),
                     !.lastCall =
                        IF Includes(currentProblems, key) THEN @
                        ELSE Called("handleKeyboardPageLabel", prev, page, key),
                     !.lastAddedProblem = key,
                     !.lastAddedWasNew = ~Includes(currentProblems, key)]
    /\ UNCHANGED beside

\* handleKeyDown for Backspace.
KeyBackspace ==
    /\ LET prev == labeling.pageLabels
           page == labeling.currentPage
       IN  Updated(HandleRemoveLastLabel(prev, page),
                   Called("handleRemoveLastLabel", prev, page, 0))
    /\ UNCHANGED beside

\* handleKeyDown for the spacebar.
KeySpace ==
    /\ LET prev == labeling.pageLabels
           page == labeling.currentPage
       IN  Updated(HandleKeyboardPageLabel(prev, page, -1),
                   Called("handleKeyboardPageLabel", prev, page, -1))
    /\ UNCHANGED beside

\* setCurrentPage: the arrow keys and the page controls of the viewer.
SetCurrentPage(pageNumber) ==
    /\ pageNumber # labeling.currentPage
    /\ labeling' = [labeling EXCEPT !.currentPage = pageNumber]
    /\ UNCHANGED beside

\* The 500 ms timer set when a digit is remembered.
LastAddedTimer ==
    /\ labeling.lastAddedProblem # 0
    /\ labeling' = [labeling EXCEPT !.lastAddedProblem = 0,
                                    !.lastAddedWasNew = FALSE]
    /\ UNCHANGED beside

NextLabels ==
    \/ \E problemNumber \in QuickProblems : HandleQuickLabel(problemNumber)
    \/ HandleNotAProblem
    \/ \E problemNumber \in CustomProblems : HandleCustomLabel(problemNumber)
    \/ HandleClearLabel
    \/ \E problemNumber \in {NOT_A_PROBLEM, 1, 10, 11} : ChipDelete(problemNumber)
    \/ \E key \in DigitKeys, inWindow \in BOOLEAN : KeyDigit(key, inWindow)
    \/ KeyBackspace
    \/ KeySpace
    \/ \E pageNumber \in Pages : SetCurrentPage(pageNumber)
    \/ LastAddedTimer

SpecLabels == Init /\ [][NextLabels]_vars

(***************************************************************************)
(* One session in which the documents of the students are fetched between  *)
(* submits, one of them under a name an HTTP header cannot carry.          *)
(***************************************************************************)
FetchInputs ==
    FairInputs \cup { [name |-> NonLatinName, labels |-> << <<1, <<1>>>> >>] }

FetchLabelRequest ==
    /\ Len(tasks) < MaxSubmits
    /\ \E sid \in {1, 2}, body \in FetchInputs : Label(sid, body.name, body.labels)

NextFetch ==
    \/ FirstUpload /\ UNCHANGED client
    \/ FetchLabelRequest /\ UNCHANGED client
    \/ (\E i \in DOMAIN tasks : ProcessLoad(i)) /\ UNCHANGED client
    \/ (\E i \in DOMAIN tasks : ProcessStamp(i)) /\ UNCHANGED client
    \/ (\E studentId \in StudentIds : FetchStudent(studentId)) /\ UNCHANGED client

SpecFetch == Init /\ [][NextFetch]_vars

(***************************************************************************)
(* Sessions one after another: uploads and resets at any time, student 1   *)
(* submitted and submitted again, the tasks running between them.          *)
(***************************************************************************)
\* The bodies that label page 1 with more than one number: one under each
\* name, so that a second submission stores pages that differ from the first.
AppendInputs == { body \in LabelInputs : Len(body.labels[1][2]) > 1 }

\* Uploads of one readable document.
AppendUploads == { docs \in StoreUploads : Len(docs) = 1 }

AppendLabelRequest ==
    /\ Len(tasks) < MaxSubmits
    /\ \E body \in AppendInputs : Label(1, body.name, body.labels)

NextAppend ==
    \/ (\E docs \in AppendUploads : Upload(docs)) /\ UNCHANGED client
    \/ AppendLabelRequest /\ UNCHANGED client
    \/ (\E i \in DOMAIN tasks : ProcessLoad(i)) /\ UNCHANGED client
    \/ (\E i \in DOMAIN tasks : ProcessStamp(i)) /\ UNCHANGED client
    \/ ResetStart /\ UNCHANGED client
    \/ ResetUnlink /\ UNCHANGED client

SpecAppend == Init /\ [][NextAppend]_vars

(***************************************************************************)
(* GET /api/student/:id/status.                                            *)
(***************************************************************************)
StudentStatus(studentId) ==
    /\ LET i == FindStudent(students, studentId)
       IN  response' =
             IF i = 0
             THEN [op |-> "studentStatus", code |-> 404,
                   body |-> [error |-> "Student not found"]]
             ELSE [op |-> "studentStatus", code |-> 200,
                   body |-> [studentId |-> students[i].id,
                             studentName |-> students[i].name,
                             processingStatus |-> students[i].processingStatus,
                             processingError |-> students[i].processingError,
                             hasLabels |-> Len(students[i].pageLabels) > 0]]
    /\ UNCHANGED <<students, problemPages, finalPdfs, tasks, finalizers,
                   resetting>>

(***************************************************************************)
(* One session with requests for the status of single students.            *)
(***************************************************************************)
NextStudentStatus ==
    \/ FirstUpload /\ UNCHANGED client
    \/ LabelRequest(MaxSubmits) /\ UNCHANGED client
    \/ (\E i \in DOMAIN tasks : ProcessLoad(i)) /\ UNCHANGED client
    \/ (\E i \in DOMAIN tasks : ProcessStamp(i)) /\ UNCHANGED client
    \/ (\E sid \in StudentIds : StudentStatus(sid)) /\ UNCHANGED client

SpecStudentStatus == Init /\ [][NextStudentStatus]_vars

(***************************************************************************)
(* The client beside another client of the API.  The label assignments     *)
(* SortingPage sends have page numbers from 1, which the task skips or     *)
(* stamps; a task that fails after it has stored a page needs a request    *)
(* with a page number below 1, which another client sends here.  Neither   *)
(* client submits once the App has started finalizeAndShowDownload.        *)
(***************************************************************************)
BelowInputs ==
    { body \in LabelInputs : \E e \in DOMAIN body.labels : body.labels[e][1] < 1 }

OtherLabelRequest ==
    /\ chains = <<>>
    /\ appState.phase = "sorting"
    /\ Len(tasks) < MaxSubmits
    /\ \E body \in BelowInputs : Label(1, body.name, body.labels)

NextErrored ==
    \/ (\E docs \in ClientUploads : HandleUpload(docs)) /\ UNCHANGED <<labeling, viewer>>
    \/ (\E body \in LabelInputs :
          chains = <<>> /\ Len(tasks) < MaxSubmits /\ ClickSubmit(body))
          /\ UNCHANGED <<labeling, viewer>>
    \/ OtherLabelRequest /\ UNCHANGED client
    \/ ServeLabel /\ UNCHANGED <<labeling, viewer>>
    \/ SubmitResponse /\ UNCHANGED <<labeling, viewer>>
    \/ HandleStudentComplete /\ UNCHANGED <<labeling, viewer>>
    \/ SavingTimer /\ UNCHANGED <<labeling, viewer>>
    \/ (\E i \in DOMAIN tasks : ProcessLoad(i)) /\ UNCHANGED client
    \/ (\E i \in DOMAIN tasks : ProcessStamp(i)) /\ UNCHANGED client
    \/ (\E c \in DOMAIN chains : ServeStatus(c)) /\ UNCHANGED <<labeling, viewer>>
    \/ (\E c \in DOMAIN chains : ChainPolled(c)) /\ UNCHANGED <<labeling, viewer>>
    \/ (\E c \in DOMAIN chains : ChainTimer(c)) /\ UNCHANGED <<labeling, viewer>>
    \/ (\E c \in DOMAIN chains : ServeFinalize(c)) /\ UNCHANGED <<labeling, viewer>>
    \/ (\E i \in DOMAIN finalizers : ServeFinalizeStep(i)) /\ UNCHANGED <<labeling, viewer>>
    \/ (\E c \in DOMAIN chains : ChainAnswered(c)) /\ UNCHANGED <<labeling, viewer>>

SpecErrored == Init /\ [][NextErrored]_vars

(***************************************************************************)
(* The same under the scheduling of the browser and of Node: a timer that  *)
(* is set fires, a request that is sent is served, a continuation whose    *)
(* promise has settled runs, and a task whose awaited step has settled     *)
(* goes on.  Nothing makes a user or another client send a request.        *)
(***************************************************************************)
FairErrored ==
    /\ Init /\ [][NextErrored]_vars
    /\ WF_vars(ServeLabel /\ UNCHANGED <<labeling, viewer>>)
    /\ WF_vars(SubmitResponse /\ UNCHANGED <<labeling, viewer>>)
    /\ WF_vars(HandleStudentComplete /\ UNCHANGED <<labeling, viewer>>)
    /\ WF_vars(SavingTimer /\ UNCHANGED <<labeling, viewer>>)
    /\ \A i \in 1..(MaxSubmits + 1) :   \* a submit on its way is served
          /\ WF_vars(ProcessLoad(i) /\ UNCHANGED client)
          /\ WF_vars(ProcessStamp(i) /\ UNCHANGED client)
    /\ WF_vars((\E c \in DOMAIN chains : ServeStatus(c)) /\ UNCHANGED <<labeling, viewer>>)
    /\ WF_vars((\E c \in DOMAIN chains : ChainPolled(c)) /\ UNCHANGED <<labeling, viewer>>)
    /\ WF_vars((\E c \in DOMAIN chains : ChainTimer(c)) /\ UNCHANGED <<labeling, viewer>>)
    /\ WF_vars((\E c \in DOMAIN chains : ServeFinalize(c)) /\ UNCHANGED <<labeling, viewer>>)
    /\ WF_vars((\E i \in DOMAIN finalizers : ServeFinalizeStep(i))
                  /\ UNCHANGED <<labeling, viewer>>)
    /\ WF_vars((\E c \in DOMAIN chains : ChainAnswered(c)) /\ UNCHANGED <<labeling, viewer>>)

(***************************************************************************)
(* The Submit button under what a user may have entered: a name that is    *)
(* missing, blank or padded, a page without labels, a page whose labels    *)
(* were all removed.                                                       *)
(***************************************************************************)
SubmitNames == {"", BlankName, PaddedName, "ann"}

SubmitLabels ==
    { <<>>,
      << <<1, <<1>>>> >>,
      << <<1, <<1>>>>, <<2, <<>>>> >>,
      << <<1, <<1, 2>>>>, <<2, <<-1>>>> >> }

SubmitInputs == [name : SubmitNames, labels : SubmitLabels]

NextSubmit ==
    \/ (\E docs \in ClientUploads : HandleUpload(docs)) /\ UNCHANGED <<labeling, viewer>>
    \/ (\E body \in SubmitInputs : Len(tasks) < MaxSubmits /\ ClickSubmit(body))
          /\ UNCHANGED <<labeling, viewer>>
    \/ ServeLabel /\ UNCHANGED <<labeling, viewer>>
    \/ SubmitResponse /\ UNCHANGED <<labeling, viewer>>
    \/ HandleStudentComplete /\ UNCHANGED <<labeling, viewer>>
    \/ SavingTimer /\ UNCHANGED <<labeling, viewer>>
    \/ (\E i \in DOMAIN tasks : ProcessLoad(i)) /\ UNCHANGED client
    \/ (\E i \in DOMAIN tasks : ProcessStamp(i)) /\ UNCHANGED client

SpecSubmit == Init /\ [][NextSubmit]_vars

(***************************************************************************)
(* SortingPage and the prefetch cache of App.  The load effect runs when   *)
(* studentId changes: it takes the cached StudentData if it is that of     *)
(* the student, else it fetches GET /api/student/:id.  Once three pages    *)
(* have labels a timer is set that calls the prefetchNextStudent of that   *)
(* render: it fetches the student after the one the render showed and      *)
(* hands the data to App, which caches it.  What the user enters is left   *)
(* to the label model; here a student is submitted with one fixed body.    *)
(***************************************************************************)
\* A document with enough pages for three of them to have labels.
LongDoc == [pages |-> 3, ok |-> TRUE]

PrefetchUploads == { <<LongDoc, LongDoc>>, <<LongDoc, LongDoc, LongDoc>> }

PrefetchBody == [name |-> "ann",
                 labels |-> << <<1, <<1>>>>, <<2, <<1>>>>, <<3, <<-1>>>> >>]

\* The StudentData built from a 200 response of GET /api/student/:id.
StudentDataOf(body) ==
    [studentId |-> body.studentId, studentName |-> body.name,
     pageLabels |-> body.pageLabels, pdfData |-> body.file]

\* loadStudent up to its return or its fetch.
LoadStudent(v, studentId, prefetchedStudentData) ==
    IF prefetchedStudentData.studentId # 0
       /\ prefetchedStudentData.studentId = studentId
    THEN [v EXCEPT !.hasPrefetchedNext = FALSE, !.isUserLabeling = FALSE,
                   !.studentData = prefetchedStudentData,
                   !.isLoading = FALSE]
    ELSE [v EXCEPT !.hasPrefetchedNext = FALSE, !.isUserLabeling = FALSE,
                   !.isLoading = TRUE, !.loading = studentId,
                   !.loaded = NoResponse]

\* The upload completes and SortingPage mounts for student 1.
MountSortingPage(docs) ==
    /\ HandleUpload(docs)
    /\ viewer' = LoadStudent(viewer, appState'.currentStudentId,
                             appState'.prefetchedStudentData)

\* The server handles the request of loadStudent.
ServeLoad ==
    /\ viewer.loading # 0
    /\ viewer.loaded = NoResponse
    /\ FetchStudent(viewer.loading)
    /\ viewer' = [viewer EXCEPT !.loaded = response']
    /\ UNCHANGED <<appState, sorting, chains, finalizeCalls>>

\* loadStudent after its fetch: the data is set on success, the error on
\* failure, and isLoading is cleared in either case.
LoadAnswered ==
    /\ viewer.loading # 0
    /\ viewer.loaded # NoResponse
    /\ viewer' = [viewer EXCEPT
                    !.studentData = IF viewer.loaded.code = 200
                                    THEN StudentDataOf(viewer.loaded.body)
                                    ELSE @,
                    !.isLoading = FALSE, !.loading = 0, !.loaded = NoResponse]
    /\ response' = NoResponse
    /\ UNCHANGED <<students, problemPages, finalPdfs, tasks, finalizers,
                   resetting, appState, sorting, chains, finalizeCalls>>

\* What SortingPage renders is the page with the student, not the spinner
\* and not the alert shown while there is no student data.
Shows == ~viewer.isLoading /\ viewer.studentData.studentId # 0

\* handlePageLabel or handleKeyboardPageLabel with labels on three pages
\* and isUserLabeling not set: the timer is set with the
\* prefetchNextStudent of this render.
LabelThirdPage ==
    /\ appState.phase = "sorting"
    /\ Shows
    /\ ~viewer.isUserLabeling
    /\ viewer' = [viewer EXCEPT
                    !.isUserLabeling = TRUE,
                    !.timers = Append(@,
                        [studentId |-> appState.currentStudentId,
                         hasPrefetchedNext |-> viewer.hasPrefetchedNext])]
    /\ response' = NoResponse
    /\ UNCHANGED <<students, problemPages, finalPdfs, tasks, finalizers,
                   resetting, appState, sorting, chains, finalizeCalls>>

\* The timer fires: prefetchNextStudent up to its return or its fetch.
PrefetchNextStudent(t) ==
    /\ t \in DOMAIN viewer.timers
    /\ LET nextStudentId == viewer.timers[t].studentId + 1
       IN  IF nextStudentId > appState.totalStudents
              \/ viewer.timers[t].hasPrefetchedNext
           THEN viewer' = [viewer EXCEPT !.timers = RemoveAt(@, t)]
           ELSE viewer' = [viewer EXCEPT
                             !.timers = RemoveAt(@, t),
                             !.hasPrefetchedNext = TRUE,
                             !.prefetches = Append(@,
                                 [studentId |-> nextStudentId,
                                  fetched |-> NoResponse])]
    /\ response' = NoResponse
    /\ UNCHANGED <<students, problemPages, finalPdfs, tasks, finalizers,
                   resetting, appState, sorting, chains, finalizeCalls>>

\* The server handles the request of a prefetch.
ServePrefetch(p) ==
    /\ p \in DOMAIN viewer.prefetches
    /\ viewer.prefetches[p].fetched = NoResponse
    /\ FetchStudent(viewer.prefetches[p].studentId)
    /\ viewer' = [viewer EXCEPT !.prefetches[p].fetched = response']
    /\ UNCHANGED <<appState, sorting, chains, finalizeCalls>>

\* App.handlePrefetchComplete.
HandlePrefetchComplete(state, data) ==
    [state EXCEPT !.prefetchedStudentData = data]

\* prefetchNextStudent after its fetch: onPrefetchComplete on success,
\* setHasPrefetchedNext(false) on failure.
PrefetchAnswered(p) ==
    /\ p \in DOMAIN viewer.prefetches
    /\ viewer.prefetches[p].fetched # NoResponse
    /\ LET fetched == viewer.prefetches[p].fetched
       IN  IF fetched.code = 200
           THEN /\ appState' = HandlePrefetchComplete(appState,
                                                      StudentDataOf(fetched.body))
                /\ viewer' = [viewer EXCEPT !.prefetches = RemoveAt(@, p)]
           ELSE /\ viewer' = [viewer EXCEPT !.prefetches = RemoveAt(@, p),
                                            !.hasPrefetchedNext = FALSE]
                /\ UNCHANGED appState
    /\ response' = NoResponse
    /\ UNCHANGED <<students, problemPages, finalPdfs, tasks, finalizers,
                   resetting, sorting, chains, finalizeCalls>>

\* The Submit button: it is rendered while the page shows a student.
ClickShown ==
    /\ Shows
    /\ Len(tasks) < MaxSubmits
    /\ ClickSubmit(PrefetchBody)
    /\ UNCHANGED viewer

\* handleStudentComplete, and the load effect if studentId has changed.
CompleteAndLoad ==
    /\ HandleStudentComplete
    /\ viewer' = IF appState'.currentStudentId # appState.currentStudentId
                 THEN LoadStudent(viewer, appState'.currentStudentId,
                                  appState'.prefetchedStudentData)
                 ELSE viewer

\* Another client of the API stores a name for a student no header can
\* carry, so that GET /api/student/:id fails for it.
OtherNameRequest ==
    /\ Len(tasks) < MaxSubmits
    /\ \E sid \in DOMAIN students :
          Label(sid, NonLatinName, << <<1, <<1>>>> >>)

NextPrefetch ==
    \/ (\E docs \in PrefetchUploads : MountSortingPage(docs)) /\ UNCHANGED labeling
    \/ ServeLoad /\ UNCHANGED labeling
    \/ LoadAnswered /\ UNCHANGED labeling
    \/ LabelThirdPage /\ UNCHANGED labeling
    \/ (\E t \in DOMAIN viewer.timers : PrefetchNextStudent(t)) /\ UNCHANGED labeling
    \/ (\E p \in DOMAIN viewer.prefetches : ServePrefetch(p)) /\ UNCHANGED labeling
    \/ (\E p \in DOMAIN viewer.prefetches : PrefetchAnswered(p)) /\ UNCHANGED labeling
    \/ ClickShown /\ UNCHANGED labeling
    \/ ServeLabel /\ UNCHANGED <<labeling, viewer>>
    \/ SubmitResponse /\ UNCHANGED <<labeling, viewer>>
    \/ CompleteAndLoad /\ UNCHANGED labeling
    \/ SavingTimer /\ UNCHANGED <<labeling, viewer>>
    \/ OtherNameRequest /\ UNCHANGED client

SpecPrefetch == Init /\ [][NextPrefetch]_vars

(***************************************************************************)
(* Properties.                                                             *)
(***************************************************************************)
Running(t) == t.pc \in {"loading", "stamping"}

\* The positions (entry, index) of a label assignment that name a page of
\* the document and a positive problem number.
PositivePairs(labels, pageCount) ==
    UNION { { <<e, l>> : l \in { n \in DOMAIN labels[e][2] : labels[e][2][n] > 0 } } :
            e \in { m \in DOMAIN labels : labels[m][1] \in 1..pageCount } }

\* Number of times record r occurs in sequence s.
Occurrences(s, r) == Cardinality({ k \in DOMAIN s : s[k] = r })

\* The Stamped Page submission t asks for at position p.
ExpectedPage(t, p) ==
    [ studentId |-> t.sid, studentName |-> t.name,
      pageNumber |-> t.labels[p[1]][1],
      pdfData |-> [ src |-> t.sid, page |-> t.labels[p[1]][1],
                    text |-> <<"Problem", t.labels[p[1]][2][p[2]], t.name,
                               "Student nr", t.sid>> ] ]

\* The (submission, position) pairs that ask for a page under problem P.
Requests(P) ==
    UNION { { <<i, p>> : p \in { q \in PositivePairs(tasks[i].labels, tasks[i].doc.pages) :
                                   tasks[i].labels[q[1]][2][q[2]] = P } } :
            i \in DOMAIN tasks }

\* How many Stamped Pages equal to r the submissions ask for under problem P.
Expected(P, r) ==
    Cardinality({ x \in Requests(P) : ExpectedPage(tasks[x[1]], x[2]) = r })

UsedProblems == { P \in {1, 2} : Requests(P) # {} }

AllCompleted == tasks # <<>> /\ \A i \in DOMAIN tasks : tasks[i].pc = "completed"

\* C1: once every task of the session has completed without error, each
\* Problem Collection holds exactly one Stamped Page per (submission, page,
\* occurrence of the problem number in that page's list), however the tasks
\* interleaved, and the keys are exactly the positive problem numbers used
\* on pages of the documents.
C1_NoLostAppend ==
    AllCompleted =>
        /\ DOMAIN problemPages = UsedProblems
        /\ \A P \in DOMAIN problemPages :
              /\ Len(problemPages[P]) = Cardinality(Requests(P))
              /\ \A x \in Requests(P) :
                    LET r == ExpectedPage(tasks[x[1]], x[2])
                    IN  Occurrences(problemPages[P], r) = Expected(P, r)

\* Two students' tasks have interleaved their appends to collection 1 and
\* both have completed.
C1_Witness ==
    /\ AllCompleted
    /\ Len(tasks) = 2
    /\ tasks[1].sid # tasks[2].sid
    /\ 1 \in DOMAIN problemPages
    /\ Len(problemPages[1]) = 3
    /\ problemPages[1][1].studentId = problemPages[1][3].studentId
    /\ problemPages[1][1].studentId # problemPages[1][2].studentId

\* Every page key of the label assignment is a page of the document.
InRangeOnly(t) == \A e \in DOMAIN t.labels : t.labels[e][1] \in 1..t.doc.pages

\* Number of (page, problem number) pairs with a positive problem number.
PositiveCount(labels) ==
    Cardinality(UNION { { <<e, l>> : l \in { n \in DOMAIN labels[e][2] :
                                              labels[e][2][n] > 0 } } :
                        e \in DOMAIN labels })

\* C2: a completed submission that names only pages of the document has
\* appended as many Stamped Pages as it has pairs with a positive problem
\* number; the sentinel and other non-positive entries add none.
C2_StampedCount ==
    \A i \in DOMAIN tasks :
        (tasks[i].pc = "completed" /\ InRangeOnly(tasks[i])) =>
            /\ Len(tasks[i].out) = PositiveCount(tasks[i].labels)
            /\ \A k \in DOMAIN tasks[i].out :
                  tasks[i].out[k][2] \in Range(problemPages[tasks[i].out[k][1]])

\* A completed submission with a non-positive entry beside two positive ones.
C2_Witness ==
    \E i \in DOMAIN tasks :
        /\ tasks[i].pc = "completed"
        /\ InRangeOnly(tasks[i])
        /\ \E e \in DOMAIN tasks[i].labels :
              \E l \in DOMAIN tasks[i].labels[e][2] : tasks[i].labels[e][2][l] <= 0
        /\ Len(tasks[i].out) = 2

\* C3: what a task stamps is what its own submit carried: every page it has
\* pushed bears the name of that submit and is a (page, problem number)
\* pair of that submit's label assignment, also after a later submit has
\* overwritten the student's name and labels.
C3_Snapshot ==
    \A i \in DOMAIN tasks :
        \A k \in DOMAIN tasks[i].out :
            LET P == tasks[i].out[k][1]
                r == tasks[i].out[k][2]
            IN  /\ r.studentName = tasks[i].name
                /\ r.studentId = tasks[i].sid
                /\ r.pdfData.text = <<"Problem", P, tasks[i].name, "Student nr", tasks[i].sid>>
                /\ \E e \in DOMAIN tasks[i].labels :
                      /\ tasks[i].labels[e][1] = r.pageNumber
                      /\ \E l \in DOMAIN tasks[i].labels[e][2] :
                            tasks[i].labels[e][2][l] = P

\* The first task of a student pushed a page after the student was submitted
\* again under another name: in a collection a page of the second submit
\* precedes a page of the first.
C3_Witness ==
    /\ Len(tasks) = 2
    /\ tasks[1].sid = tasks[2].sid
    /\ tasks[1].name # tasks[2].name
    /\ students[tasks[1].sid].name = tasks[2].name
    /\ \E P \in DOMAIN problemPages :
          \E a, b \in DOMAIN problemPages[P] :
              /\ a < b
              /\ problemPages[P][a].studentName = tasks[2].name
              /\ problemPages[P][b].studentName = tasks[1].name

\* C5 as claimed: a status response with processingStudents = 0 means that
\* no task is in flight, and a student never has two tasks in flight.
C5_StatusZeroMeansIdle ==
    /\ (response.op = "status" /\ response.body.processingStudents = 0) =>
          \A i \in DOMAIN tasks : ~Running(tasks[i])
    /\ \A i, j \in DOMAIN tasks :
          (i # j /\ Running(tasks[i]) /\ Running(tasks[j])) =>
              tasks[i].sid # tasks[j].sid

\* A page key beyond the last page of a document that parses.
NamesPageBeyond(t) ==
    \E e \in DOMAIN t.labels : t.labels[e][1] > t.doc.pages

C8_FailureRecorded ==
    [][ \A i \in DOMAIN tasks :
          (Running(tasks[i]) /\ i \in DOMAIN tasks' /\ tasks'[i].pc = "error") =>
              /\ students'[tasks[i].sid].processingStatus = "error"
              /\ students'[tasks[i].sid].processingError \notin {"", Undefined} ]_vars

\* Both kinds of failure have happened: a document that does not parse, and
\* a failure while stamping a pair.
C8_Witness ==
    /\ Len(tasks) = 2
    /\ tasks[1].pc = "error" /\ tasks[2].pc = "error"
    /\ tasks[1].sid # tasks[2].sid
    /\ tasks[1].doc.ok # tasks[2].doc.ok
    /\ \A i \in 1..2 : /\ students[tasks[i].sid].processingStatus = "error"
                       /\ students[tasks[i].sid].processingError # Undefined

\* C9: the pages a task pushed before it failed stay in their collections.
C9_NoRollback ==
    \A i \in DOMAIN tasks :
        tasks[i].pc = "error" =>
            \A k \in DOMAIN tasks[i].out :
                /\ tasks[i].out[k][1] \in DOMAIN problemPages
                /\ Occurrences(problemPages[tasks[i].out[k][1]], tasks[i].out[k][2])
                     >= Occurrences(tasks[i].out, tasks[i].out[k])

\* A task failed after it had pushed a page; the student's status is error.
C9_Witness ==
    \E i \in DOMAIN tasks :
        /\ tasks[i].pc = "error"
        /\ tasks[i].out # <<>>
        /\ students[tasks[i].sid].processingStatus = "error"
        /\ tasks[i].out[1][2] \in Range(problemPages[tasks[i].out[1][1]])

\* The documents of a collection, in collection order.
Documents(pages) == [ k \in DOMAIN pages |-> pages[k].pdfData ]

IsPrefix(s, t) == Len(s) <= Len(t) /\ \A k \in DOMAIN s : s[k] = t[k]

\* Problem P's final document is written in this step.
Written(P) ==
    /\ P \in DOMAIN finalPdfs'
    /\ P \notin DOMAIN finalPdfs \/ finalPdfs'[P] # finalPdfs[P]

\* The students with a page in P's collection.
Contributors(P) ==
    IF P \in DOMAIN problemPages
    THEN { problemPages[P][k].studentId : k \in DOMAIN problemPages[P] }
    ELSE {}

\* C4 as claimed: a Final Document is never built while a student that
\* contributes pages to it is still processing.
C4_BuiltAfterCompleted ==
    [][ \A P \in {1, 2} :
          Written(P) =>
              \A s \in Contributors(P) : students[s].processingStatus = "completed" ]_vars

\* C4 amended: finalize looks at no status.  A Final Document for P exists
\* only once a finalize request has stored it, and it holds the pages that
\* were in P's collection when that request copied them: a non-empty prefix
\* of the collection, whether or not the contributing students have
\* completed.
C4_BuiltFromCollection ==
    /\ [](\A P \in DOMAIN finalPdfs :
            /\ P \in DOMAIN problemPages
            /\ finalPdfs[P] # <<>>
            /\ IsPrefix(finalPdfs[P], Documents(problemPages[P])))
    /\ [][ \A P \in {1, 2} :
             Written(P) =>
                 \E i \in DOMAIN finalizers :
                     /\ finalizers[i].pc = "save"
                     /\ finalizers[i].keys[finalizers[i].k] = P
                     /\ finalPdfs'[P] = finalizers[i].built ]_vars

\* A Final Document exists while a student with pages in its collection is
\* still processing.
C4_Witness ==
    \E P \in DOMAIN finalPdfs :
        \E i \in DOMAIN tasks :
            /\ Running(tasks[i])
            /\ students[tasks[i].sid].processingStatus = "processing"
            /\ tasks[i].sid \in Contributors(P)
            /\ finalPdfs[P] # <<>>

Settled(t) == t.pc \in {"completed", "error"}

\* The pages of a collection that are not of student s.
PagesOfOthers(pages, s) == SelectSeq(pages, LAMBDA r : r.studentId # s)

\* Task i fails or hangs in this step.
FailsOrHangs(i) ==
    /\ i \in DOMAIN tasks /\ i \in DOMAIN tasks'
    /\ Running(tasks[i])
    /\ tasks'[i].pc = "error" \/ (tasks'[i].hung /\ ~tasks[i].hung)

\* C10: under fair scheduling a started task whose awaited steps settle
\* leaves processing and ends completed or error, also beside a task that
\* failed or hangs; and the step in which a task fails or hangs changes
\* no other student's status, record or pages.
C10_TasksSettle ==
    /\ \A i \in 1..MaxSubmits :
          (i \in DOMAIN tasks /\ Running(tasks[i]) /\ ~tasks[i].hung)
             ~> (/\ i \in DOMAIN tasks
                 /\ \/ tasks[i].hung
                    \/ /\ Settled(tasks[i])
                       /\ students[tasks[i].sid].processingStatus = tasks[i].pc)
    /\ [][ \A i \in 1..MaxSubmits :
             FailsOrHangs(i) =>
                 /\ \A s \in DOMAIN students :
                       s # tasks[i].sid => students'[s] = students[s]
                 /\ DOMAIN problemPages' = DOMAIN problemPages
                 /\ \A P \in DOMAIN problemPages :
                       PagesOfOthers(problemPages'[P], tasks[i].sid)
                         = PagesOfOthers(problemPages[P], tasks[i].sid) ]_vars

\* Beside a task that hangs and has pushed nothing, another student's task
\* has completed with its pages.
C10_Witness ==
    /\ Len(tasks) = 2
    /\ tasks[1].hung /\ Running(tasks[1])
    /\ tasks[2].sid # tasks[1].sid
    /\ tasks[2].pc = "completed" /\ tasks[2].out # <<>>
    /\ students[tasks[2].sid].processingStatus = "completed"
    /\ students[tasks[1].sid].processingStatus = "processing"

\* C6 as claimed: the client sends at most one finalize request in a
\* grading session.
C6_FinalizeOnce == finalizeCalls <= 1

\* What holds of the client: a finalize request is sent only in the step
\* that acts on a status response with processingStudents = 0, after the
\* last student was submitted.
ClientFinalizesOnZero ==
    [][ finalizeCalls' # finalizeCalls =>
          /\ appState.currentStudentId = appState.totalStudents
          /\ \E c \in DOMAIN chains :
                /\ chains[c].pc = "polled" /\ chains[c].processingStudents = 0
                /\ chains'[c].pc = "finalize" ]_vars

\* C11 as claimed: a student's status never returns to pending, and a
\* student in completed or error leaves that status only in the step that
\* submits the student again.
C11_StatusLifecycle ==
    [][ \A s \in DOMAIN students :
          s \in DOMAIN students' =>
              /\ students'[s].processingStatus = "pending" =>
                    students[s].processingStatus = "pending"
              /\ ( /\ students[s].processingStatus \in {"completed", "error"}
                   /\ students'[s].processingStatus # students[s].processingStatus ) =>
                    /\ students'[s].processingStatus = "processing"
                    /\ Len(tasks') = Len(tasks) + 1
                    /\ tasks'[Len(tasks')].sid = s ]_vars

\* C12: the step that answers a submit for a known student has stored the
\* name and the label assignment of the request on the student and has
\* started the task, and no page of this submit is in a collection yet: the
\* collections are as they were before the request.
C12_AckBeforeStamping ==
    [][ (response'.op = "label" /\ response'.code = 200) =>
          /\ Len(tasks') = Len(tasks) + 1
          /\ LET t == tasks'[Len(tasks')]
             IN  /\ students'[t.sid].name = t.name
                 /\ students'[t.sid].pageLabels = t.labels
                 /\ students'[t.sid].processingStatus = "processing"
                 /\ t.pc = "loading"
                 /\ t.out = <<>>
          /\ problemPages' = problemPages ]_vars

\* A submit was just acknowledged for a student whose earlier submit, under
\* another name, has pages in a collection.
C12_Witness ==
    /\ response.op = "label" /\ response.code = 200
    /\ Len(tasks) = 2
    /\ tasks[2].pc = "loading" /\ tasks[2].out = <<>>
    /\ tasks[1].sid = tasks[2].sid /\ tasks[1].name # tasks[2].name
    /\ tasks[1].out # <<>>
    /\ students[tasks[2].sid].name = tasks[2].name

\* The id is the id of no student of the roster.
Unknown(studentId) == \A i \in DOMAIN students : students[i].id # studentId

\* C13: a submit for a student id that is not in the roster is answered
\* 404 and changes nothing in the store and starts no task.
C13_UnknownStudent ==
    [][ \A sid \in StudentIds, body \in LabelInputs :
          (Unknown(sid) /\ Label(sid, body.name, body.labels)) =>
              /\ response'.code = 404
              /\ UNCHANGED <<students, problemPages, finalPdfs, tasks, finalizers>> ]_vars

\* An unknown id was just refused in a session that has students, a task
\* and pages.
C13_Witness ==
    /\ response.op = "label" /\ response.code = 404
    /\ students # <<>>
    /\ tasks # <<>>
    /\ problemPages # <<>>

\* C20 as claimed: an upload is never answered with success and
\* totalStudents = 0.
C20_EmptyUploadRejected ==
    (response.op = "upload" /\ response.code = 200) =>
        response.body.totalStudents > 0

\* Every collection has a final document, and it is the collection's pages
\* in collection order.
UpToDate ==
    /\ DOMAIN finalPdfs = DOMAIN problemPages
    /\ \A P \in DOMAIN problemPages : finalPdfs[P] = Documents(problemPages[P])

C15_Idempotent ==
    [][ (UpToDate /\ problemPages' = problemPages) =>
          /\ finalPdfs' = finalPdfs
          /\ response'.op = "finalize" =>
                response'.body.problems = ObjectKeys(finalPdfs) ]_vars

\* A second finalize is about to store a document that is already there.
C15_Witness ==
    /\ UpToDate
    /\ \E i \in DOMAIN finalizers :
          /\ finalizers[i].pc = "save"
          /\ finalizers[i].built = finalPdfs[finalizers[i].keys[finalizers[i].k]]
          /\ Len(finalizers[i].built) >= 2

\* C16: the step of finalize that stores problem P's document stores the
\* pages of P's current collection, whether or not an earlier finalize has
\* left a document for P: pages appended since are in it, and a document
\* for a new problem number is created.
C16_Rebuilt ==
    [][ \A i \in DOMAIN finalizers :
          FinalizeSave(i) =>
              LET P == finalizers[i].keys[finalizers[i].k]
              IN  /\ P \in DOMAIN finalPdfs'
                  /\ finalPdfs'[P] = Documents(problemPages[P]) ]_vars

\* After an earlier finalize and a later submit, finalize has answered: the
\* document it left for problem 1 was replaced by a longer one, and a
\* document for problem 2 was created.
C16_Witness ==
    /\ Len(tasks) = 2
    /\ tasks[1].out # <<>> /\ \A k \in DOMAIN tasks[1].out : tasks[1].out[k][1] = 1
    /\ \E k \in DOMAIN tasks[2].out : tasks[2].out[k][1] = 2
    /\ \E i \in DOMAIN finalizers :
          /\ finalizers[i].pc = "save"
          /\ finalizers[i].keys = <<1, 2>>
          /\ finalizers[i].k = 2
          /\ Len(finalPdfs[1]) = Len(problemPages[1])
          /\ Len(problemPages[1]) > Len(tasks[1].out)
          /\ 2 \notin DOMAIN finalPdfs

\* C17: finalize has no refusal: whatever the students' status, it answers
\* success, and every problem number it lists has a Final Document built
\* from pages that were in the collection.
C17_NoNotReady ==
    response.op = "finalize" =>
        /\ response.code = 200
        /\ response.body.success
        /\ \A k \in DOMAIN response.body.problems :
              LET P == response.body.problems[k]
              IN  /\ P \in DOMAIN finalPdfs
                  /\ Range(finalPdfs[P]) \subseteq Range(Documents(problemPages[P]))

\* finalize has answered while a student with pages in a collection is
\* still processing.
C17_Witness ==
    /\ response.op = "finalize" /\ response.code = 200
    /\ response.body.problems # <<>>
    /\ \E i \in DOMAIN tasks :
          /\ Running(tasks[i]) /\ tasks[i].out # <<>>
          /\ students[tasks[i].sid].processingStatus = "processing"

\* C18 as claimed: download answers with a document exactly when the store
\* holds a Final Document for the problem number, and never for a problem
\* number that has no collection in the current session.
C18_DownloadFinalized ==
    response.op = "download" =>
        /\ response.code = 200 <=> response.body.problemId \in DOMAIN finalPdfs
        /\ response.code = 200 => response.body.problemId \in DOMAIN problemPages

\* C19: the step that accepts an upload of N documents leaves a roster of
\* exactly N students with ids 1..N in input order, each pending with no
\* name and no labels, and no collection and no Final Document; the answer
\* carries N, and status would report no problems and isFinalized false.
C19_FreshRoster ==
    [][ \A docs \in UploadInputs :
          Upload(docs) =>
              /\ Len(students') = Len(docs)
              /\ \A i \in 1..Len(docs) :
                    /\ students'[i].id = i
                    /\ students'[i].doc = docs[i]
                    /\ students'[i].processingStatus = "pending"
                    /\ students'[i].name = ""
                    /\ students'[i].pageLabels = <<>>
              /\ response'.code = 200
              /\ response'.body.totalStudents = Len(docs)
              /\ problemPages' = <<>> /\ finalPdfs' = <<>>
              /\ StatusBody(students', problemPages', finalPdfs').problems = <<>>
              /\ ~StatusBody(students', problemPages', finalPdfs').isFinalized ]_vars

\* An upload of two documents was just accepted over a session that had a
\* running task and a finalize request in flight, which had stored a
\* document.
C19_Witness ==
    /\ response.op = "upload" /\ response.code = 200
    /\ Len(students) = 2
    /\ students[2].id = 2
    /\ problemPages = <<>> /\ finalPdfs = <<>>
    /\ \E i \in DOMAIN finalizers :
          finalizers[i].ref = "old" /\ finalizers[i].k = 2

\* A status body that reports an empty store.
ReportsEmpty(body) ==
    /\ body.totalStudents = 0
    /\ body.problems = <<>>
    /\ ~body.isFinalized

\* C21: when a reset returns it has succeeded, and the status of the store
\* it leaves reports zero students, zero problems and isFinalized = false,
\* whatever the store held before; a status request served right after the
\* reset's response answers just that.
C21_ResetEmpties ==
    [][ /\ response'.op = "reset" =>
              /\ response'.code = 200
              /\ ReportsEmpty(StatusBody(students', problemPages', finalPdfs'))
        /\ (response.op = "reset" /\ response'.op = "status") =>
              ReportsEmpty(response'.body) ]_vars

\* A reset has returned in a session that had a labeled student, stamped
\* pages and a final document, with a finalize request still in flight.
C21_Witness ==
    /\ response.op = "reset"
    /\ \E i \in DOMAIN finalizers :
          finalizers[i].ref = "old" /\ finalizers[i].k = 2
                                    /\ Len(finalizers[i].pages) > 0

\* C22: every Stamped Page of a Problem Collection is filed under a positive
\* problem number, and its page number lies between 1 and the page count of
\* the document of its student, from which it was copied.
C22_WellFormedPages ==
    \A P \in DOMAIN problemPages :
        /\ P > 0
        /\ \A k \in DOMAIN problemPages[P] :
              LET r == problemPages[P][k]
              IN  /\ r.studentId \in DOMAIN students
                  /\ r.pageNumber >= 1
                  /\ r.pageNumber <= students[r.studentId].doc.pages
                  /\ r.pdfData.page = r.pageNumber

\* Two tasks have ended, one that was given a page key below 1 after it had
\* stamped a page, one that was given a non-positive problem number; pages
\* are in a collection.
C22_Witness ==
    /\ \E i \in DOMAIN tasks :
          /\ tasks[i].pc = "error"
          /\ tasks[i].out # <<>>
          /\ \E e \in DOMAIN tasks[i].labels : tasks[i].labels[e][1] < 1
    /\ \E i \in DOMAIN tasks :
          /\ tasks[i].pc = "completed"
          /\ tasks[i].out # <<>>
          /\ \E e \in DOMAIN tasks[i].labels :
                \E l \in DOMAIN tasks[i].labels[e][2] : tasks[i].labels[e][2][l] <= 0
    /\ problemPages # <<>>

RECURSIVE InOrder(_)
\* The positions of a set in iteration order: by entry, then by index in
\* the entry's list.
InOrder(S) ==
    IF S = {} THEN <<>>
    ELSE LET m == CHOOSE x \in S :
                     \A y \in S : x[1] < y[1] \/ (x[1] = y[1] /\ x[2] <= y[2])
         IN  <<m>> \o InOrder(S \ {m})

\* What submission t asks for, in iteration order: <<problem number, page>>.
ExpectedInOrder(t) ==
    LET ps == InOrder(PositivePairs(t.labels, t.doc.pages))
    IN  [ n \in 1..Len(ps) |->
            <<t.labels[ps[n][1]][2][ps[n][2]], ExpectedPage(t, ps[n])>> ]

\* The pages a task has appended to the collection of problem P, in the
\* order it appended them.
OutUnder(t, P) ==
    LET sel == SelectSeq(t.out, LAMBDA x : x[1] = P)
    IN  [ n \in 1..Len(sel) |-> sel[n][2] ]

RECURSIVE Interleaves(_, _)
\* Sequence s is an interleaving of the sequences ss[1], ss[2], ..., each
\* kept in its own order.
Interleaves(s, ss) ==
    IF s = <<>> THEN \A i \in DOMAIN ss : ss[i] = <<>>
    ELSE \E i \in DOMAIN ss :
            /\ ss[i] # <<>>
            /\ Head(ss[i]) = Head(s)
            /\ Interleaves(Tail(s), [ss EXCEPT ![i] = Tail(@)])

\* C23: a task processes its (page, problem number) pairs in the iteration
\* order of the label assignment, page by page and inside a page in the
\* order of the page's list; every Problem Collection is an interleaving of
\* what the tasks appended to it, each task's pages in that order.
C23_TaskOrder ==
    /\ \A i \in DOMAIN tasks :
          /\ IsPrefix(tasks[i].out, ExpectedInOrder(tasks[i]))
          /\ tasks[i].pc = "completed" => tasks[i].out = ExpectedInOrder(tasks[i])
    /\ \A P \in {1, 2} :
          Interleaves(IF P \in DOMAIN problemPages THEN problemPages[P] ELSE <<>>,
                      [ i \in DOMAIN tasks |-> OutUnder(tasks[i], P) ])

\* Two tasks have completed, each with two pages in the collection of one
\* problem, and a page of the other task lies between the two pages of a
\* task there.
C23_Witness ==
    /\ Len(tasks) = 2
    /\ \A i \in DOMAIN tasks : tasks[i].pc = "completed"
    /\ tasks[1].sid # tasks[2].sid
    /\ 1 \in DOMAIN problemPages
    /\ Len(problemPages[1]) = 3
    /\ problemPages[1][1].studentId = problemPages[1][3].studentId
    /\ problemPages[1][2].studentId # problemPages[1][1].studentId
    /\ problemPages[1][1].pageNumber < problemPages[1][3].pageNumber

\* The students of the roster in a processing status.
InStatus(status) ==
    { i \in DOMAIN students : students[i].processingStatus = status }

\* The students with a non-empty name and at least one labeled page.
Labeled ==
    { i \in DOMAIN students :
        /\ students[i].name # ""
        /\ \E e \in DOMAIN students[i].pageLabels :
              Len(students[i].pageLabels[e][2]) > 0 }

Assigners == {"handlePageLabel", "handleKeyboardPageLabel"}

\* The labels of the page of the last handler call, as that call left them.
LabelsAfterCall ==
    CurrentProblems(labeling.pageLabels, labeling.lastCall.pageNumber)

\* C25: assigning the sentinel to a page replaces all labels of the page by
\* the sentinel alone, and assigning a positive problem number to a page
\* that carries the sentinel leaves the labels of the page as they were.
C25_SentinelRules ==
    labeling.lastCall.handler \in Assigners =>
        /\ labeling.lastCall.problemNumber = -1 => LabelsAfterCall = <<-1>>
        /\ (/\ labeling.lastCall.problemNumber > 0
            /\ Includes(labeling.lastCall.before, -1)) =>
              LabelsAfterCall = labeling.lastCall.before

\* A key has assigned a positive number to a page that carried the sentinel.
C25_Witness ==
    /\ labeling.lastCall.handler = "handleKeyboardPageLabel"
    /\ labeling.lastCall.problemNumber > 0
    /\ labeling.lastCall.before = <<-1>>
    /\ LabelsAfterCall = <<-1>>

\* C26, as stated: a positive problem number assigned, with a button or the
\* custom field, to a page that carries the sentinel removes the sentinel,
\* and the page ends with only the positive number.
C26_SentinelRemoved ==
    (/\ labeling.lastCall.handler = "handlePageLabel"
     /\ labeling.lastCall.problemNumber > 0
     /\ labeling.lastCall.before = <<-1>>) =>
        LabelsAfterCall = <<labeling.lastCall.problemNumber>>

\* C26, as the handler behaves: whatever a page carries, assigning the
\* sentinel and then a positive problem number to it leaves the page with
\* the sentinel alone; the page ends with only the positive number when the
\* sentinel is removed before the number is assigned.
C26_SentinelStays ==
    \A pageNumber \in Pages, problemNumber \in QuickProblems \cup CustomProblems :
        LET marked == HandlePageLabel(labeling.pageLabels, pageNumber, -1)
            unmarked == HandleRemovePageLabel(marked, pageNumber, -1)
        IN  /\ CurrentProblems(HandlePageLabel(marked, pageNumber, problemNumber),
                               pageNumber) = <<-1>>
            /\ pageNumber \notin DOMAIN unmarked
            /\ CurrentProblems(HandlePageLabel(unmarked, pageNumber, problemNumber),
                               pageNumber) = <<problemNumber>>

\* A button has assigned a positive number to a page that carried the
\* sentinel, and the page still carries the sentinel alone.
C26_Witness ==
    /\ labeling.lastCall.handler = "handlePageLabel"
    /\ labeling.lastCall.problemNumber > 0
    /\ labeling.lastCall.before = <<-1>>
    /\ LabelsAfterCall = <<-1>>
    /\ labeling.lastCall.pageNumber = labeling.currentPage

\* C27: after any sequence of label events, starting from an empty
\* assignment, no page's list holds the sentinel together with a positive
\* problem number.
C27_SentinelExclusive ==
    \A pageNumber \in DOMAIN labeling.pageLabels :
        ~ /\ Includes(labeling.pageLabels[pageNumber], -1)
          /\ \E k \in DOMAIN labeling.pageLabels[pageNumber] :
                labeling.pageLabels[pageNumber][k] > 0

\* The spacebar has put the sentinel on a page that carried two positive
\* numbers, one of them a two-digit combination, while the other page
\* carries positive numbers.
C27_Witness ==
    /\ labeling.lastCall.handler = "handleKeyboardPageLabel"
    /\ labeling.lastCall.problemNumber = -1
    /\ Len(labeling.lastCall.before) >= 2
    /\ \E k \in DOMAIN labeling.lastCall.before : labeling.lastCall.before[k] >= 10
    /\ LabelsAfterCall = <<-1>>
    /\ \E pageNumber \in DOMAIN labeling.pageLabels :
          /\ pageNumber # labeling.lastCall.pageNumber
          /\ Len(labeling.pageLabels[pageNumber]) >= 2

\* C28: after any sequence of label events the Label Assignment has no page
\* entry with an empty list; a removal that takes the last label of a page
\* deletes the entry of the page.
C28_NoEmptyEntry ==
    /\ \A pageNumber \in DOMAIN labeling.pageLabels :
          Len(labeling.pageLabels[pageNumber]) > 0
    /\ (/\ labeling.lastCall.handler \in
              {"handleRemovePageLabel", "handleRemoveLastLabel"}
        /\ Len(labeling.lastCall.before) = 1
        /\ labeling.lastCall.handler = "handleRemovePageLabel" =>
              labeling.lastCall.before[1] = labeling.lastCall.problemNumber) =>
          labeling.lastCall.pageNumber \notin DOMAIN labeling.pageLabels

\* Backspace has removed the only label of a page: the page has no entry,
\* the other page has one.
C28_Witness ==
    /\ labeling.lastCall.handler = "handleRemoveLastLabel"
    /\ Len(labeling.lastCall.before) = 1
    /\ labeling.lastCall.pageNumber \notin DOMAIN labeling.pageLabels
    /\ DOMAIN labeling.pageLabels # {}

\* The submits the server has accepted for a student, oldest first.
SubmitsOf(studentId) ==
    SelectSeq(tasks, LAMBDA t : t.sid = studentId)

\* The name and the Label Assignment of the most recent accepted submit of
\* a student; an empty name and an empty assignment before the first one.
LastSubmit(studentId) ==
    LET s == SubmitsOf(studentId)
    IN  IF s = <<>> THEN [name |-> "", labels |-> <<>>]
        ELSE [name |-> s[Len(s)].name, labels |-> s[Len(s)].labels]

\* C29: fetching the document of a student of the roster returns the name
\* and the Label Assignment of the student's most recent accepted submit
\* (both empty before the first submit); fetching an id that is not in the
\* roster fails with NotFound.
C29_FetchReturnsSubmit ==
    response.op = "student" =>
        IF \E i \in DOMAIN students : students[i].id = response.body.studentId
        THEN /\ response.code = 200
             /\ response.body.name = LastSubmit(response.body.studentId).name
             /\ response.body.pageLabels = LastSubmit(response.body.studentId).labels
        ELSE response.code = 404

\* C30: once a reset has completed, the status keeps reporting zero problems
\* and isFinalized = false until the next upload is accepted; stated for
\* the step that follows the completion of the reset: unless that step is
\* an upload, the store it leaves has no Stamped Page and no Final Document.
C30_NoWriteAfterReset ==
    [][ (response.op = "reset" /\ response'.op # "upload") =>
          LET body == StatusBody(students', problemPages', finalPdfs')
          IN  body.problems = <<>> /\ ~body.isFinalized ]_vars

\* The students of the roster a label submit was acknowledged for: each
\* acknowledged submit started a task that holds its student.
Acknowledged ==
    { FindStudent(students, tasks[i].sid) :
        i \in { j \in DOMAIN tasks : ~tasks[j].stale } }

\* C31: a student whose label submit was acknowledged is never in status
\* pending afterwards, neither in the store nor in what a later status
\* request reports: the students reported as processing, completed or error
\* are at least the acknowledged ones.
C31_NeverPending ==
    /\ \A i \in Acknowledged : students[i].processingStatus # "pending"
    /\ response.op = "status" =>
          response.body.processingStudents + response.body.completedStudents
            + response.body.errorStudents >= Cardinality(Acknowledged)

\* A status request answered while a submitted student's task has not taken
\* a step of its own yet.
C31_Witness ==
    /\ response.op = "status"
    /\ \E i \in DOMAIN tasks : tasks[i].pc = "loading"
    /\ response.body.processingStudents >= 1

\* A step of an upload or of a reset.
ResetOrUpload ==
    \/ \E docs \in UploadInputs : Upload(docs)
    \/ ResetStart
    \/ ResetUnlink

\* C32: every step that is not part of a reset or an upload leaves each
\* problem collection in place and only appends to it: the collection
\* before the step is a prefix of the collection after it.  The pages an
\* earlier submission of a student stored therefore stay when the student
\* is submitted again.
C32_AppendOnly ==
    [][ ~ResetOrUpload =>
          \A P \in DOMAIN problemPages :
             /\ P \in DOMAIN problemPages'
             /\ IsPrefix(problemPages[P], problemPages'[P]) ]_vars

\* A student submitted twice in one session, both tasks done: the
\* collection holds the page of the first submission and, after it, the
\* same page stored by the second.
C32_Witness ==
    \E i, j \in DOMAIN tasks :
       /\ i < j
       /\ tasks[i].sid = tasks[j].sid
       /\ ~tasks[i].stale /\ ~tasks[j].stale
       /\ tasks[i].pc = "completed" /\ tasks[j].pc = "completed"
       /\ \E P \in DOMAIN problemPages :
             \E k, l \in DOMAIN problemPages[P] :
                /\ k < l
                /\ problemPages[P][k].studentId = tasks[i].sid
                /\ problemPages[P][l].studentId = tasks[i].sid
                /\ problemPages[P][k].pageNumber = problemPages[P][l].pageNumber

\* C33: in one session, with tasks appending while finalize runs, what a
\* finalize has copied for the problem it is at is a prefix of that
\* problem's collection at every moment, and when the finalize answers,
\* the Final Document of every problem it reports is a prefix of the
\* problem's collection as it stands then: pages in collection order, none
\* twice, none from elsewhere.
C33_PrefixAtFinish ==
    /\ \A i \in DOMAIN finalizers :
          finalizers[i].ref = "live" =>
             IsPrefix(finalizers[i].built,
                      Documents(problemPages[finalizers[i].keys[finalizers[i].k]]))
    /\ (response.op = "finalize" /\ response.code = 200) =>
          \A k \in DOMAIN response.body.problems :
             LET P == response.body.problems[k]
             IN  /\ P \in DOMAIN finalPdfs
                 /\ P \in DOMAIN problemPages
                 /\ IsPrefix(finalPdfs[P], Documents(problemPages[P]))

\* A finalize answers, and a collection it reports has grown past the Final
\* Document written from it: a task appended to it while the finalize ran.
C33_Witness ==
    /\ response.op = "finalize" /\ response.code = 200
    /\ \E k \in DOMAIN response.body.problems :
          LET P == response.body.problems[k]
          IN  /\ finalPdfs[P] # <<>>
              /\ Len(finalPdfs[P]) < Len(problemPages[P])

ErroredPagesFinal ==
    \A i \in DOMAIN tasks :
       tasks[i].pc = "error" =>
          \A k \in DOMAIN tasks[i].out :
             LET P == tasks[i].out[k][1]
             IN  /\ P \in DOMAIN finalPdfs
                 /\ \E n \in DOMAIN finalPdfs[P] :
                       finalPdfs[P][n] = tasks[i].out[k][2].pdfData

\* C35: a call of finalizeAndShowDownload that reads processingStudents = 0
\* and errorStudents > 0 from the status sends the finalize request, and
\* when the request is answered the Final Documents hold the pages the
\* students in error stored before they failed.
C35_FinalizesAroundErrors ==
    /\ [][ \A c \in DOMAIN chains :
             (/\ ChainPolled(c)
              /\ chains[c].processingStudents = 0
              /\ chains[c].errorStudents > 0) =>
                /\ chains'[c].pc = "finalize"
                /\ finalizeCalls' = finalizeCalls + 1 ]_vars
    /\ [](\A c \in DOMAIN chains :
             (chains[c].pc = "answered" /\ chains[c].ok /\ chains[c].errorStudents > 0)
                => ErroredPagesFinal)

\* A finalize request sent after the status reported a student in error has
\* been answered, and that student's task had stored a page.
C35_Witness ==
    /\ \E c \in DOMAIN chains :
          chains[c].pc = "answered" /\ chains[c].ok /\ chains[c].errorStudents > 0
    /\ \E i \in DOMAIN tasks : tasks[i].pc = "error" /\ tasks[i].out # <<>>
    /\ ErroredPagesFinal

\* The response to the submit of the last student has arrived with success.
LastAcknowledged ==
    /\ sorting.pc = "posted"
    /\ sorting.ok
    /\ sorting.studentId = appState.totalStudents

AllPagesLabeled(pageLabels, totalPages) ==
    \A pageNum \in 1..totalPages :
       \E e \in DOMAIN pageLabels :
          pageLabels[e][1] = pageNum /\ pageLabels[e][2] # <<>>

FirstDigitJustAdded ==
    /\ labeling.lastAddedWasNew
    /\ labeling.lastCall.handler = "handleKeyboardPageLabel"
    /\ labeling.lastCall.pageNumber = labeling.currentPage
    /\ labeling.lastCall.problemNumber = labeling.lastAddedProblem
    /\ CurrentProblems(labeling.pageLabels, labeling.currentPage)
         = Append(labeling.lastCall.before, labeling.lastAddedProblem)

\* C38 as claimed: on a page without the sentinel, digit b pressed within
\* 500 ms of digit a leaves the page labeled with 10a+b, and with a only if
\* a was on the page before the first of the two key presses.
C38_TwoDigitEntry ==
    [][ \A b \in DigitKeys :
          LET a == labeling.lastAddedProblem
              page == labeling.currentPage
              after == CurrentProblems(labeling'.pageLabels, page)
          IN  (/\ KeyDigit(b, TRUE)
               /\ ~Includes(CurrentProblems(labeling.pageLabels, page), NOT_A_PROBLEM)
               /\ labeling.lastAddedWasNew => FirstDigitJustAdded) =>
                 /\ Includes(after, 10 * a + b)
                 /\ Includes(after, a) => ~labeling.lastAddedWasNew ]_vars

\* C39: whatever the buttons, chips and keys did since the page mounted
\* with no labels, no page of the assignment has a problem number twice.
C39_NoDuplicateLabel ==
    \A pageNumber \in DOMAIN labeling.pageLabels :
       \A j, k \in DOMAIN labeling.pageLabels[pageNumber] :
          labeling.pageLabels[pageNumber][j] = labeling.pageLabels[pageNumber][k]
             => j = k

\* A number was entered in the custom field on a page that had it already,
\* beside another number, and the labels of the page stayed as they were.
C39_Witness ==
    /\ labeling.lastCall.handler = "handlePageLabel"
    /\ labeling.lastCall.problemNumber > 0
    /\ Includes(labeling.lastCall.before, labeling.lastCall.problemNumber)
    /\ Len(labeling.lastCall.before) > 1
    /\ CurrentProblems(labeling.pageLabels, labeling.lastCall.pageNumber)
         = labeling.lastCall.before

\* The page shows a student, and it is the student App is at.
ShowsCurrentStudent ==
    (appState.phase = "sorting" /\ Shows) =>
       viewer.studentData.studentId = appState.currentStudentId

\* The student data is only ever set to data of the student being loaded.
SetToCurrentStudent ==
    [][ viewer'.studentData # viewer.studentData =>
           viewer'.studentData.studentId = appState'.currentStudentId ]_vars

\* On advance the cache is emptied unless it holds the student advanced to.
CacheDroppedOnAdvance ==
    [][ appState'.currentStudentId # appState.currentStudentId =>
           \/ appState'.prefetchedStudentData = NoData
           \/ /\ appState'.prefetchedStudentData = appState.prefetchedStudentData
              /\ appState'.prefetchedStudentData.studentId
                    = appState'.currentStudentId ]_vars

\* A prefetch that completes changes the cache and leaves the page alone.
PrefetchLeavesPage ==
    [][ (/\ appState'.prefetchedStudentData # appState.prefetchedStudentData
         /\ appState'.currentStudentId = appState.currentStudentId) =>
           /\ viewer'.studentData = viewer.studentData
           /\ viewer'.isLoading = viewer.isLoading
           /\ viewer'.loading = viewer.loading ]_vars

\* C40 as claimed: the sorting page shows the document, name and labels of
\* the current student id only; prefetched data is used only for the
\* student it was fetched for, the cache is dropped on advance unless it
\* holds the next student, and a prefetch that completes after the advance
\* does not replace the data of the student shown.
C40_ShowsCurrentStudentOnly ==
    /\ []ShowsCurrentStudent
    /\ SetToCurrentStudent
    /\ CacheDroppedOnAdvance
    /\ PrefetchLeavesPage
====
